---- MODULE Spec2Model ----
(***************************************************************************)
(* Model of portal-conductor's orchestration core.                         *)
(*                                                                         *)
(* Part I  : the directory (LDAP) and the object store (iRODS) as the      *)
(*           handlers see them, and the handlers add_user,                 *)
(*           create_datastore_user and delete_user built from the calls of *)
(*           portal_ldap.py and portal_datastore.py.                       *)
(* Part II : the Formation client's token cache (_ensure_valid_token,      *)
(*           _refresh_token) run by several threads.                       *)
(* Part III: delete_user_async, which hands the deletion to the job        *)
(*           service, get_deletion_status, the search for the app's        *)
(*           username parameter, and what main.py answers their caller.    *)
(* Part IV : add_user calls of several request threads, interleaved at     *)
(*           their backend calls.                                          *)
(* Part V  : the Formation client's lookup of an app by name.              *)
(* Part VI : handlers/auth.py and the endpoints that declare it.           *)
(* Part VII: register_service of portal_datastore.py.                      *)
(* Part VIII: decode_ldap_int_attr of portal_ldap.py.                      *)
(* Part IX : change_password calls of several request threads.             *)
(* Part X  : scripts/delete-user.py, the deletion job.                     *)
(*                                                                         *)
(* A handler is one action: it runs every backend call of the handler in   *)
(* program order.  A backend call fails either because the backend rejects *)
(* it in the current state or because the `fail`-th call of the handler is *)
(* chosen to fail (connection error, timeout); the exception then leaves   *)
(* the handler, as no handler of Part I catches and continues.             *)
(***************************************************************************)
EXTENDS Integers, Sequences, FiniteSets, TLC

\* ------------------------------------------------------------------------
\* Bounds and input sets
\* ------------------------------------------------------------------------

\* Highest index of a backend call that may be chosen to fail in one handler run.
MaxFail == 16

Usernames == {"jdoe"}
Passwords == {"pw1", "pw2"}

\* The requests add_user is called with.  attrs stands for the identity attributes of
\* a CreateUserRequest other than uid and password (names, email, department, ...),
\* taken as one value; user_uid is the number int() reads, 0 standing for the inputs
\* validate_uid_number rejects.
Payloads ==
    UNION {{[username |-> u, attrs |-> "attrsA", user_uid |-> 5001, password |-> "pw1"],
            [username |-> u, attrs |-> "attrsB", user_uid |-> 5001, password |-> "pw2"],
            [username |-> u, attrs |-> "attrsA", user_uid |-> 0, password |-> "pw1"]} :
           u \in Usernames}

\* A directory entry, account or collection that does not exist.
NoEntry == [exists |-> FALSE]
NoPassword == "unset"

\* Configuration (handlers/dependencies.py)
ldap_everyone_group == "everyone"
ldap_community_group == "community"
ipcservices_user == "ipcservices"
ds_admin_user == "rodsadmin"

Groups == {ldap_everyone_group, ldap_community_group}
\* The order in which a directory search lists groups.
GroupOrder == <<ldap_everyone_group, ldap_community_group>>

VARIABLES
    ldapUsers,    \* [Usernames -> NoEntry or [exists, attrs, uidNumber, userPassword,
                  \*               shadowLastChange]]
    ldapGroups,   \* [Groups -> SUBSET Usernames], the memberUid values
    irodsUsers,   \* [Usernames -> NoEntry or [exists, password]]
    irodsHomes,   \* [Usernames -> NoEntry or [exists, acl]], acl the set of
                  \* <<user_name, access_name>> on /zone/home/<user>
    last,         \* the handler call completed last: what the caller saw
    today,        \* the day count datetime.now(UTC) gives (days since the epoch)
    \* Part II: a Formation client shared by the request threads
    token,          \* self._token
    token_expiry,   \* self._token_expiry
    lock,           \* self._lock: the thread holding it, or NoThread
    now,            \* time.time(), in seconds
    pc,             \* [Threads -> where the thread is in _ensure_valid_token]
    current_time,   \* [Threads -> the time the thread read on entry]
    response,       \* [Threads -> the token endpoint's answer to the thread's request]
    issued,         \* token requests the endpoint has received so far
    burst,          \* what the calls made since all threads were last idle did
    \* Part III: the job service (Formation) as delete_user_async uses it
    _formation_api,       \* whether a Formation client is configured
    _formation_app_id,    \* the cached id of the user-deletion app, or NoAppId
    _formation_app_name,  \* the configured name of the user-deletion app, or ""
    analyses,             \* the analyses the job service has accepted, in order
    app_params,           \* the parameter groups the job service lists for the app
    reply,                \* what the last call of a job handler gave its caller
    \* Part IV: add_user calls running at the same time
    calls,                \* [Callers -> how far the caller's add_user has come]
    \* Part V: the job service's app listing and a lookup in it
    listing,              \* the apps GET /apps answers with, in the order listed
    lookup,               \* the last get_app_id_by_name call and what it returned
    \* Part VI: the API's configuration, its requests and the mailing lists
    api_config,           \* dependencies.get_config(): auth and mailman settings
    served,               \* the request served last: its endpoint and credentials
    members,              \* the mailing-list service: <<list_name, email>> pairs
    \* Part VII: service registrations in the object store
    irodsServices,        \* [Usernames \X ServicePaths -> NoEntry or [exists, acl,
                          \*  inherit]], the collection /zone/home/<user>/<irods_path>
    \* Part VIII: an attribute of a directory entry and what it decodes to
    attr_value,           \* attrs_dict.get(attr_name)
    decoded,              \* what decode_ldap_int_attr made of it
    \* Part X: the deletion script and the portal database
    portal_db,            \* [Usernames -> NoEntry or [exists, id, emails]]: account_user
                          \* with the user's addresses and their list subscriptions
    script                \* the last run of scripts/delete-user.py and how it ended

provVars == <<ldapUsers, ldapGroups, irodsUsers, irodsHomes, last>>
tokVars == <<token, token_expiry, lock, now, pc, current_time, response, issued, burst>>
jobVars == <<_formation_api, _formation_app_id, _formation_app_name, analyses,
             app_params, reply>>
raceVars == <<calls>>
extVars == <<listing, lookup, api_config, served, members, irodsServices,
             attr_value, decoded, portal_db, script>>
vars == <<ldapUsers, ldapGroups, irodsUsers, irodsHomes, last, today,
          token, token_expiry, lock, now, pc, current_time, response, issued, burst,
          _formation_api, _formation_app_id, _formation_app_name, analyses,
          app_params, reply, calls, listing, lookup,
          api_config, served, members, irodsServices, attr_value, decoded, portal_db, script>>

\* The backing systems as one value.
World == [lu |-> ldapUsers, lg |-> ldapGroups, iu |-> irodsUsers, ih |-> irodsHomes]

EmptyWorld ==
    [lu |-> [u \in Usernames |-> NoEntry],
     lg |-> [g \in Groups |-> {}],
     iu |-> [u \in Usernames |-> NoEntry],
     ih |-> [u \in Usernames |-> NoEntry]]

\* ------------------------------------------------------------------------
\* Running a handler: calls in program order, the first failure ends it
\* ------------------------------------------------------------------------

Ok(w) == [ok |-> TRUE, w |-> w]
Rejected(w) == [ok |-> FALSE, w |-> w]

\* A call that only reads.
Read(w) == Ok(w)

Start(w) == [w |-> w, n |-> 0, err |-> FALSE, log |-> << >>]

\* The next backend call `name` of a run x; r is what the backend answers in the
\* state x.w.  After an exception nothing more of the handler runs.
Do(x, fail, name, r) ==
    IF x.err THEN x
    ELSE IF x.n + 1 = fail \/ ~r.ok
         THEN [x EXCEPT !.n = x.n + 1, !.err = TRUE, !.log = Append(x.log, name)]
         ELSE [x EXCEPT !.w = r.w, !.n = x.n + 1, !.log = Append(x.log, name)]

\* ------------------------------------------------------------------------
\* portal_ldap.py
\* ------------------------------------------------------------------------

validate_uid_number(user_uid) == user_uid > 0

validate_shadow_last_change(dse) == dse >= 0

\* (datetime.now(UTC) - epoch).days
days_since_epoch == today

get_user(w, username) == w.lu[username]

get_user_groups(w, username) == {g \in Groups : username \in w.lg[g]}

\* conn.add_s: the directory rejects an entry that exists.
create_user(w, dse, user) ==
    IF ~validate_uid_number(user.user_uid) \/ ~validate_shadow_last_change(dse) THEN Rejected(w)
    ELSE IF w.lu[user.username].exists THEN Rejected(w)
    ELSE Ok([w EXCEPT !.lu[user.username] =
                [exists |-> TRUE, attrs |-> user.attrs, uidNumber |-> user.user_uid,
                 userPassword |-> user.password, shadowLastChange |-> dse]])

\* conn.passwd_s
change_password(w, username, password) ==
    IF ~w.lu[username].exists THEN Rejected(w)
    ELSE Ok([w EXCEPT !.lu[username].userPassword = password])

\* conn.modify_s MOD_DELETE shadowLastChange, MOD_ADD shadowLastChange
shadow_last_change(w, dse, username) ==
    IF ~validate_shadow_last_change(dse) THEN Rejected(w)
    ELSE IF ~w.lu[username].exists THEN Rejected(w)
    ELSE Ok([w EXCEPT !.lu[username].shadowLastChange = dse])

\* conn.modify_s MOD_ADD memberUid: rejected when the value is present.
add_user_to_group(w, username, group) ==
    IF group \notin Groups \/ username \in w.lg[group] THEN Rejected(w)
    ELSE Ok([w EXCEPT !.lg[group] = @ \cup {username}])

\* conn.modify_s MOD_DELETE memberUid: rejected when the value is absent.
remove_user_from_group(w, username, group) ==
    IF group \notin Groups \/ username \notin w.lg[group] THEN Rejected(w)
    ELSE Ok([w EXCEPT !.lg[group] = @ \ {username}])

\* conn.delete_s
ldap_delete_user(w, username) ==
    IF ~w.lu[username].exists THEN Rejected(w)
    ELSE Ok([w EXCEPT !.lu[username] = NoEntry])

\* Faulty variant of add_group_if_absent: the membership is added without looking at
\* the memberships the search returned.
add_group_unchecked(x, fail, username, group) ==
    LET Listed(y) ==
            Do(y, fail, "ldap.add_user_to_group", add_user_to_group(y.w, username, group))
    IN  IF group = "" THEN x
        ELSE Listed(Do(x, fail, "ldap.get_user_groups", Read(x.w)))

\* An intermediate run is handed on as an operator argument (Lookup(x1), ...), which
\* TLC evaluates once.
add_group_if_absent(x, fail, username, group) ==
    LET Listed(y) ==
            IF group \notin get_user_groups(y.w, username)
            THEN Do(y, fail, "ldap.add_user_to_group", add_user_to_group(y.w, username, group))
            ELSE y
    IN  IF group = "" THEN x
        ELSE Listed(Do(x, fail, "ldap.get_user_groups", Read(x.w)))

\* Faulty variant of create_ldap_user_with_groups: the password is set whether or not
\* the account was found.
create_ldap_user_always_set_password(x, fail, user, everyone_group, community_group) ==
    LET SetPassword(c1) ==
            Do(c1, fail, "ldap.change_password",
               change_password(c1.w, user.username, user.password))
        Lookup(x1) ==
            IF ~get_user(x1.w, user.username).exists
            THEN SetPassword(Do(x1, fail, "ldap.create_user", create_user(x1.w, days_since_epoch, user)))
            ELSE SetPassword(x1)
    IN  add_group_if_absent(
            add_group_if_absent(Lookup(Do(x, fail, "ldap.get_user", Read(x.w))),
                                fail, user.username, everyone_group),
            fail, user.username, community_group)

create_ldap_user_with_groups(x, fail, user, everyone_group, community_group) ==
    LET SetPassword(c1) ==
            Do(c1, fail, "ldap.change_password",
               change_password(c1.w, user.username, user.password))
        Lookup(x1) ==
            IF ~get_user(x1.w, user.username).exists
            THEN SetPassword(Do(x1, fail, "ldap.create_user", create_user(x1.w, days_since_epoch, user)))
            ELSE x1
    IN  add_group_if_absent(
            add_group_if_absent(Lookup(Do(x, fail, "ldap.get_user", Read(x.w))),
                                fail, user.username, everyone_group),
            fail, user.username, community_group)

\* _delete_user_from_ldap's loop over the groups the search returned.
RECURSIVE remove_from_groups(_, _, _, _)
remove_from_groups(x, fail, username, user_groups) ==
    IF user_groups = << >> THEN x
    ELSE remove_from_groups(
             Do(x, fail, "ldap.remove_user_from_group",
                remove_user_from_group(x.w, username, Head(user_groups))),
             fail, username, Tail(user_groups))

\* ------------------------------------------------------------------------
\* portal_datastore.py
\* ------------------------------------------------------------------------

PathPermission(username, permission, path) ==
    [username |-> username, permission |-> permission, path |-> path]

user_exists(w, username) == w.iu[username].exists

\* The home collection /zone/home/<username> is keyed by its user.
path_exists(w, username) == w.ih[username].exists

\* session.acls.get of the home collection
path_permissions(w, username) ==
    IF w.ih[username].exists THEN w.ih[username].acl ELSE {}

\* path_permissions as a call: collections.get raises when the collection is missing.
get_path_permissions(w, username) ==
    IF w.ih[username].exists THEN Ok(w) ELSE Rejected(w)

\* session.users.create.  Whether the store also makes the new account's home
\* collection (owned by the account) is the store's choice, autoHome; the caller
\* checks path_exists afterwards and handles both.
ds_create_user(w, username, autoHome) ==
    IF w.iu[username].exists THEN Rejected(w)
    ELSE LET w1 == [w EXCEPT !.iu[username] = [exists |-> TRUE, password |-> NoPassword]] IN
         IF autoHome /\ ~w.ih[username].exists
         THEN Ok([w1 EXCEPT !.ih[username] = [exists |-> TRUE, acl |-> {<<username, "own">>}]])
         ELSE Ok(w1)

\* session.collections.create: the new collection gives none of the three principals
\* of interest (the user, ipcservices, the admin) any access yet.
collections_create(w, username) ==
    IF w.ih[username].exists THEN Rejected(w)
    ELSE Ok([w EXCEPT !.ih[username] = [exists |-> TRUE, acl |-> {}]])

\* session.users.modify(username, "password", new_password)
ds_change_password(w, username, new_password) ==
    IF ~w.iu[username].exists THEN Rejected(w)
    ELSE Ok([w EXCEPT !.iu[username].password = new_password])

\* Faulty variant of chmod: the call returns without setting the access.
chmod_without_effect(w, perm) ==
    IF ~w.ih[perm.path].exists THEN Rejected(w) ELSE Ok(w)

\* session.acls.set: the principal's access on the path becomes perm.permission.
chmod(w, perm) ==
    IF ~w.ih[perm.path].exists THEN Rejected(w)
    ELSE Ok([w EXCEPT !.ih[perm.path].acl =
                {a \in @ : a[1] # perm.username} \cup {<<perm.username, perm.permission>>}])

\* session.users.get(username, zone).remove()
ds_delete_user(w, username) ==
    IF ~w.iu[username].exists THEN Rejected(w)
    ELSE Ok([w EXCEPT !.iu[username] = NoEntry])

\* session.collections.remove(homedir, force, recurse)
collections_remove(w, username) ==
    IF ~w.ih[username].exists THEN Rejected(w)
    ELSE Ok([w EXCEPT !.ih[username] = NoEntry])

\* Faulty variant of delete_home: the collection is removed without asking whether
\* it exists.
delete_home_unchecked(x, fail, username) ==
    Do(x, fail, "irods.collections_remove", collections_remove(x.w, username))

delete_home(x, fail, username) ==
    LET Exists(e) ==
            IF path_exists(e.w, username)
            THEN Do(e, fail, "irods.collections_remove", collections_remove(e.w, username))
            ELSE e
    IN  Exists(Do(x, fail, "irods.collections_exists", Read(x.w)))

owns(current_perms, username) == <<username, "own">> \in current_perms

ensure_user_exists(x, fail, username, autoHome) ==
    LET Chown(m) ==
            Do(m, fail, "irods.chmod", chmod(m.w, PathPermission(username, "own", username)))
        Home(p) ==
            IF ~path_exists(p.w, username)
            THEN Chown(Do(p, fail, "irods.collections_create", collections_create(p.w, username)))
            ELSE p
        Created(c) == Home(Do(c, fail, "irods.path_exists", Read(c.w)))
        Lookup(x1) ==
            IF user_exists(x1.w, username)
            THEN Do(x1, fail, "irods.get_user", Read(x1.w))
            ELSE Created(Do(x1, fail, "irods.create_user",
                            ds_create_user(x1.w, username, autoHome)))
    IN  Lookup(Do(x, fail, "irods.user_exists", Read(x.w)))

\* Faulty variant of create_datastore_user_with_permissions: the password is written
\* only for an account this run created.
create_datastore_user_password_if_new(x, fail, username, password, ipc_user, admin_user, autoHome) ==
    LET Grant(d, current_perms, who) ==
            IF ~owns(current_perms, who)
            THEN Do(d, fail, "irods.chmod", chmod(d.w, PathPermission(who, "own", username)))
            ELSE d
        Permissions(c, current_perms) ==
            Grant(Grant(c, current_perms, ipc_user), current_perms, admin_user)
        PasswordSet(b) ==
            Permissions(Do(b, fail, "irods.path_permissions", get_path_permissions(b.w, username)),
                        path_permissions(b.w, username))
        Ensured(a) ==
            IF user_exists(x.w, username) THEN PasswordSet(a)
            ELSE PasswordSet(Do(a, fail, "irods.change_password",
                                ds_change_password(a.w, username, password)))
    IN  Ensured(ensure_user_exists(x, fail, username, autoHome))

\* health_check swallows its own exception and its result is not read: it is no
\* step of the run.
create_datastore_user_with_permissions(x, fail, username, password, ipc_user, admin_user, autoHome) ==
    LET Grant(d, current_perms, who) ==
            IF ~owns(current_perms, who)
            THEN Do(d, fail, "irods.chmod", chmod(d.w, PathPermission(who, "own", username)))
            ELSE d
        Permissions(c, current_perms) ==
            Grant(Grant(c, current_perms, ipc_user), current_perms, admin_user)
        PasswordSet(b) ==
            Permissions(Do(b, fail, "irods.path_permissions", get_path_permissions(b.w, username)),
                        path_permissions(b.w, username))
        Ensured(a) ==
            PasswordSet(Do(a, fail, "irods.change_password",
                           ds_change_password(a.w, username, password)))
    IN  Ensured(ensure_user_exists(x, fail, username, autoHome))

\* ------------------------------------------------------------------------
\* handlers/user_management.py, handlers/datastore_management.py
\* ------------------------------------------------------------------------

\* Faulty variant of add_user: a failure of the directory part is caught and the
\* object-store part runs all the same.
add_user_continue_after_ldap_error(w, fail, user, autoHome) ==
    LET x == create_ldap_user_with_groups(Start(w), fail, user,
                                          ldap_everyone_group, ldap_community_group)
        Resume(y) == [y EXCEPT !.err = FALSE]
    IN  create_datastore_user_with_permissions(Resume(x), fail, user.username, user.password,
                                               ipcservices_user, ds_admin_user, autoHome)

add_user(w, fail, user, autoHome) ==
    LET x == create_ldap_user_with_groups(Start(w), fail, user,
                                          ldap_everyone_group, ldap_community_group)
    IN  create_datastore_user_with_permissions(x, fail, user.username, user.password,
                                               ipcservices_user, ds_admin_user, autoHome)

create_datastore_user(w, fail, request, autoHome) ==
    create_datastore_user_with_permissions(Start(w), fail, request.username, request.password,
                                           ipcservices_user, ds_admin_user, autoHome)

\* Faulty variant of _delete_user_from_datastore: the account is deleted first, its
\* home collection after it.
_delete_user_from_datastore_account_first(x, fail, username) ==
    LET Lookup(x1) ==
            IF user_exists(x1.w, username)
            THEN delete_home(Do(x1, fail, "irods.delete_user", ds_delete_user(x1.w, username)),
                             fail, username)
            ELSE x1
    IN  Lookup(Do(x, fail, "irods.user_exists", Read(x.w)))

_delete_user_from_datastore(x, fail, username) ==
    LET HomeGone(h) == Do(h, fail, "irods.delete_user", ds_delete_user(h.w, username))
        Lookup(x1) ==
            IF user_exists(x1.w, username)
            THEN HomeGone(delete_home(x1, fail, username))
            ELSE x1
    IN  Lookup(Do(x, fail, "irods.user_exists", Read(x.w)))

_delete_user_from_ldap(x, fail, username) ==
    LET Removed(r) == Do(r, fail, "ldap.delete_user", ldap_delete_user(r.w, username))
        Listed(g) ==
            LET InGroup(grp) == grp \in get_user_groups(g.w, username)
            IN  Removed(remove_from_groups(g, fail, username, SelectSeq(GroupOrder, InGroup)))
        Lookup(x1) ==
            IF ~get_user(x1.w, username).exists THEN x1
            ELSE Listed(Do(x1, fail, "ldap.get_user_groups", Read(x1.w)))
    IN  Lookup(Do(x, fail, "ldap.get_user", Read(x.w)))

\* Faulty variant of delete_user: a user missing from the object store is taken to be
\* gone and the directory is not looked at.
delete_user_store_decides(w, fail, username) ==
    IF user_exists(w, username)
    THEN _delete_user_from_ldap(_delete_user_from_datastore(Start(w), fail, username),
                                fail, username)
    ELSE _delete_user_from_datastore(Start(w), fail, username)

delete_user(w, fail, username) ==
    _delete_user_from_ldap(_delete_user_from_datastore(Start(w), fail, username), fail, username)

\* Faulty variant of handler_change_password: the object store is written first.
handler_change_password_store_first(w, fail, username, password, dse) ==
    LET Stamp(x2) ==
            Do(x2, fail, "ldap.shadow_last_change", shadow_last_change(x2.w, dse, username))
        Directory(x1) ==
            Do(x1, fail, "ldap.change_password", change_password(x1.w, username, password))
    IN  Stamp(Directory(Do(Start(w), fail, "irods.change_password",
                           ds_change_password(w, username, password))))

\* Faulty variant of handler_change_password: the object store keeps its password.
handler_change_password_directory_only(w, fail, username, password, dse) ==
    LET Stamp(x1) ==
            Do(x1, fail, "ldap.shadow_last_change", shadow_last_change(x1.w, dse, username))
        Store(x2) == Do(x2, fail, "irods.change_password", Read(x2.w))
    IN  Store(Stamp(Do(Start(w), fail, "ldap.change_password",
                       change_password(w, username, password))))

\* change_password of handlers/user_management.py; dse is the day count it reads.
handler_change_password(w, fail, username, password, dse) ==
    LET Stamp(x1) ==
            Do(x1, fail, "ldap.shadow_last_change", shadow_last_change(x1.w, dse, username))
        Store(x2) ==
            Do(x2, fail, "irods.change_password", ds_change_password(x2.w, username, password))
    IN  Store(Stamp(Do(Start(w), fail, "ldap.change_password",
                       change_password(w, username, password))))

\* ------------------------------------------------------------------------
\* Actions of Part I
\* ------------------------------------------------------------------------

DatastoreRequests == [username : Usernames, password : Passwords]

NoCall == [op |-> "none", req |-> NoEntry, ok |-> TRUE, log |-> << >>, fail |-> 0, after |-> "other"]

\* How the call (op, req) follows the call completed before it.
After(op, req) ==
    IF last.op = op /\ last.req = req
    THEN (IF last.ok THEN "same_ok" ELSE "same_failed")
    ELSE IF op = "change_password" /\ last.op = op /\ last.ok
            /\ last.req.username = req.username
    THEN "same_user_ok"
    ELSE "other"

Commit(op, req, fail, r) ==
    /\ fail <= r.n
    /\ ldapUsers' = r.w.lu
    /\ ldapGroups' = r.w.lg
    /\ irodsUsers' = r.w.iu
    /\ irodsHomes' = r.w.ih
    /\ last' = [op |-> op, req |-> req, ok |-> ~r.err, log |-> r.log, fail |-> fail,
                after |-> After(op, req)]
    /\ UNCHANGED <<today, tokVars, jobVars, raceVars, extVars>>

\* The store's choice at an account creation: there is one only when the account
\* is missing.
AutoHomeChoices(username) == IF user_exists(World, username) THEN {FALSE} ELSE BOOLEAN

AddUser ==
    \E user \in Payloads, fail \in 0..MaxFail :
        \E autoHome \in AutoHomeChoices(user.username) :
            Commit("add_user", user, fail, add_user(World, fail, user, autoHome))

CreateDatastoreUser ==
    \E request \in DatastoreRequests, fail \in 0..MaxFail :
        \E autoHome \in AutoHomeChoices(request.username) :
            Commit("create_datastore_user", request, fail,
                   create_datastore_user(World, fail, request, autoHome))

DeleteUser ==
    \E username \in Usernames, fail \in 0..MaxFail :
        Commit("delete_user", [username |-> username], fail, delete_user(World, fail, username))

PasswordRequests == [username : Usernames, password : Passwords]

ChangePassword ==
    \E request \in PasswordRequests, fail \in 0..MaxFail :
        Commit("change_password", request, fail,
               handler_change_password(World, fail, request.username, request.password,
                                       days_since_epoch))

\* Days a behaviour spans after the first.
MaxDay == 1

\* Midnight (UTC) passes.
NextDay ==
    /\ today < MaxDay
    /\ today' = today + 1
    /\ UNCHANGED <<provVars, tokVars, jobVars, raceVars, extVars>>

ProvInit ==
    /\ today = 0
    /\ ldapUsers = EmptyWorld.lu
    /\ ldapGroups = EmptyWorld.lg
    /\ irodsUsers = EmptyWorld.iu
    /\ irodsHomes = EmptyWorld.ih
    /\ last = NoCall

\* The request threads add_user calls run on at the same time (Part IV).
Callers == {"c1", "c2"}

\* A thread with no request.
IdleCall == [pc |-> "idle", user |-> NoEntry, current_perms |-> {}, log |-> << >>]

NoCalls == calls = [t \in Callers |-> IdleCall]

\* No lookup by name made yet (Part V).
NoLookup == [system_id |-> "", app_name |-> << >>, found |-> "none yet"]

\* bcrypt, as a function of the password alone (the salt left out).
get_password_hash(password) == <<"bcrypt", password>>

\* Authentication on, the credentials of the portal configured, mailman enabled.
DefaultConfig ==
    [auth |-> [enabled |-> TRUE, username |-> "portal",
               password |-> get_password_hash("secret")],
     mailman_enabled |-> TRUE]

\* No request served yet (Part VI).
NoRequest == [endpoint |-> "none", credentials |-> [given |-> FALSE]]

\* The irods_path values services are registered under (Part VII).
ServicePaths == {"my-service-data", "other-data"}
NoServices == [d \in Usernames \X ServicePaths |-> NoEntry]

\* attrs_dict.get(attr_name) of an attribute the entry does not have (Part VIII).
Missing == [kind |-> "None"]
NotDecoded == [raised |-> "not called", none |-> TRUE, int |-> 0]

\* The portal database without the user, and no run of the script (Part X).
NoPortalDb == [u \in Usernames |-> NoEntry]
NoRun ==
    [ran |-> FALSE, username |-> "", dry_run |-> FALSE, email_api |-> FALSE,
     success |-> FALSE, exit |-> 0, err |-> FALSE, log |-> << >>]

\* The state of Parts V to X in the behaviours that are not about them.
ExtIdle ==
    /\ listing = << >>
    /\ lookup = NoLookup
    /\ api_config = DefaultConfig
    /\ served = NoRequest
    /\ members = {}
    /\ irodsServices = NoServices
    /\ attr_value = Missing
    /\ decoded = NotDecoded
    /\ portal_db = NoPortalDb
    /\ script = NoRun

\* ------------------------------------------------------------------------
\* Part II: formation.py, the token cache
\* ------------------------------------------------------------------------

Threads == {"t1", "t2"}
NoThread == "none"

\* self._refresh_buffer
refresh_buffer == 60

\* The clock is read in steps of TickStep seconds, up to MaxTime.
TickStep == 30
MaxTime == 90
\* Token requests the endpoint answers in one behaviour.
MaxIssued == 3

\* Seconds between the time a token is issued and its exp claim.
Lifetimes == {60, 120}

\* self._token = None
NoToken == [id |-> 0, payload |-> "none", exp |-> 0]

\* The access_token strings the endpoint may return for request number id: a JWT
\* with an exp claim, a JWT without one, and a string that is no JWT.
AccessTokens(id) ==
    {[id |-> id, payload |-> "exp", exp |-> now + life] : life \in Lifetimes}
      \cup {[id |-> id, payload |-> "no_exp", exp |-> 0],
            [id |-> id, payload |-> "garbage", exp |-> 0]}

NoResponse == [status |-> "none", has_token |-> FALSE, access_token |-> NoToken]

\* What httpx.post may return: a non-2xx answer, a 2xx answer whose JSON holds no
\* "access_token", a 2xx answer with an access token.
Responses(id) ==
    {[status |-> "non2xx", has_token |-> FALSE, access_token |-> NoToken],
     [status |-> "2xx", has_token |-> FALSE, access_token |-> NoToken]}
      \cup {[status |-> "2xx", has_token |-> TRUE, access_token |-> tok] : tok \in AccessTokens(id)}

\* jwt.decode(token, verify_signature False), payload.get("exp", 0); 0 when decoding fails
_decode_token_expiry(tok) ==
    IF tok.payload = "exp" THEN tok.exp ELSE 0

\* current_time < self._token_expiry - self._refresh_buffer
StillValid(t) == current_time[t] < token_expiry - refresh_buffer

NoAttempt == [token |-> NoToken, token_expiry |-> 0]

\* The calls made since all threads were last idle: the requests they sent, whether
\* every answer so far was a 2xx with a JWT that has an exp claim (clean), the token
\* cached when the first request left and the expiry decoded from its answer.
\* Per thread: whether its call began before any request of the burst was sent
\* (early), whether it left the fast path (slow), the cache as it was when the
\* thread sent its request (attempt), how the call ended and the token the caller
\* then put in its Authorization header (seen), whether it was waiting for the lock
\* when another thread's refresh failed (waited).
IdleThread ==
    [early |-> FALSE, slow |-> FALSE, attempt |-> NoAttempt, outcome |-> "none", seen |-> NoToken,
     waited |-> FALSE]

NoBurst ==
    [requests |-> 0, clean |-> TRUE, cached |-> NoToken, first_expiry |-> 0,
     th |-> [t \in Threads |-> IdleThread]]

TokInit ==
    /\ token = NoToken
    /\ token_expiry = 0
    /\ lock = NoThread
    /\ now = 0
    /\ pc = [t \in Threads |-> "idle"]
    /\ current_time = [t \in Threads |-> 0]
    /\ response = [t \in Threads |-> NoResponse]
    /\ issued = 0
    /\ burst = NoBurst

\* _ensure_valid_token, line 166: current_time = time.time()
Enter(t) ==
    /\ pc[t] = "idle"
    /\ current_time' = [current_time EXCEPT ![t] = now]
    /\ pc' = [pc EXCEPT ![t] = "fast"]
    /\ burst' = [burst EXCEPT !.th[t].early = (burst.requests = 0)]
    /\ UNCHANGED <<provVars, today, jobVars, raceVars, extVars, token, token_expiry, lock, now, response, issued>>

\* Faulty variant of FastPath: a token at expiry minus the margin still counts as valid.
FastPathInclusive(t) ==
    /\ pc[t] = "fast"
    /\ IF token # NoToken /\ current_time[t] <= token_expiry - refresh_buffer
       THEN pc' = [pc EXCEPT ![t] = "return"] /\ UNCHANGED burst
       ELSE /\ pc' = [pc EXCEPT ![t] = "acquire"]
            /\ burst' = [burst EXCEPT !.th[t].slow = TRUE]
    /\ UNCHANGED <<provVars, today, jobVars, raceVars, extVars, token, token_expiry, lock, now, current_time, response, issued>>

\* lines 168-170, the fast path
FastPath(t) ==
    /\ pc[t] = "fast"
    /\ IF token # NoToken /\ StillValid(t)
       THEN pc' = [pc EXCEPT ![t] = "return"] /\ UNCHANGED burst
       ELSE /\ pc' = [pc EXCEPT ![t] = "acquire"]
            /\ burst' = [burst EXCEPT !.th[t].slow = TRUE]
    /\ UNCHANGED <<provVars, today, jobVars, raceVars, extVars, token, token_expiry, lock, now, current_time, response, issued>>

\* Faulty variant of Acquire: the lock is taken without waiting for it.
AcquireWithoutWaiting(t) ==
    /\ pc[t] = "acquire"
    /\ lock' = t
    /\ pc' = [pc EXCEPT ![t] = "check"]
    /\ UNCHANGED <<provVars, today, jobVars, raceVars, extVars, token, token_expiry, now, current_time, response, issued, burst>>

\* line 173: with self._lock
Acquire(t) ==
    /\ pc[t] = "acquire"
    /\ lock = NoThread
    /\ lock' = t
    /\ pc' = [pc EXCEPT ![t] = "check"]
    /\ UNCHANGED <<provVars, today, jobVars, raceVars, extVars, token, token_expiry, now, current_time, response, issued, burst>>

\* _refresh_token, lines 101-111: the request leaves
SendRequest(t) ==
    /\ issued < MaxIssued
    /\ issued' = issued + 1
    /\ pc' = [pc EXCEPT ![t] = "inflight"]
    /\ burst' = [burst EXCEPT !.requests = @ + 1,
                              !.cached = IF burst.requests = 0 THEN token ELSE @,
                              !.th[t].attempt = [token |-> token, token_expiry |-> token_expiry]]
    /\ UNCHANGED <<provVars, today, jobVars, raceVars, extVars, token, token_expiry, lock, now, current_time, response>>

\* Faulty variant of Check: a thread that has the lock refreshes without checking again.
CheckAlwaysRefresh(t) ==
    /\ pc[t] = "check"
    /\ SendRequest(t)

\* lines 175-176: the check repeated inside the lock, with the time read on entry
Check(t) ==
    /\ pc[t] = "check"
    /\ IF current_time[t] >= token_expiry - refresh_buffer
       THEN SendRequest(t)
       ELSE /\ lock' = NoThread
            /\ pc' = [pc EXCEPT ![t] = "return"]
            /\ UNCHANGED <<provVars, today, jobVars, raceVars, extVars, token, token_expiry, now, current_time, response,
                           issued, burst>>

\* The token endpoint answers.
Respond(t) ==
    /\ pc[t] = "inflight"
    /\ \E r \in Responses(issued) :
          /\ response' = [response EXCEPT ![t] = r]
          /\ burst' = [burst EXCEPT !.clean =
                          @ /\ r.has_token /\ r.access_token.payload = "exp"]
    /\ pc' = [pc EXCEPT ![t] = "answered"]
    /\ UNCHANGED <<provVars, today, jobVars, raceVars, extVars, token, token_expiry, lock, now, current_time, issued>>

\* The exception leaves _refresh_token and the with block.
Raise(t, error) ==
    /\ lock' = NoThread
    /\ pc' = [pc EXCEPT ![t] = "raised"]
    /\ burst' = [burst EXCEPT !.th =
                    [u \in Threads |->
                        IF u = t THEN [burst.th[u] EXCEPT !.outcome = error]
                        ELSE IF pc[u] = "acquire" THEN [burst.th[u] EXCEPT !.waited = TRUE]
                        ELSE burst.th[u]]]
    /\ UNCHANGED <<token, token_expiry>>

\* Faulty variant of HandleResponse: a failed refresh drops the cached token.
HandleResponseDropToken(t) ==
    /\ pc[t] = "answered"
    /\ IF response[t].status # "2xx"
       THEN /\ lock' = NoThread
            /\ pc' = [pc EXCEPT ![t] = "raised"]
            /\ burst' = [burst EXCEPT !.th[t].outcome = "HTTPStatusError"]
            /\ token' = NoToken
            /\ token_expiry' = 0
       ELSE IF ~response[t].has_token
       THEN Raise(t, "KeyError")
       ELSE /\ token' = response[t].access_token
            /\ pc' = [pc EXCEPT ![t] = "decode"]
            /\ UNCHANGED <<token_expiry, lock, burst>>
    /\ UNCHANGED <<provVars, today, jobVars, raceVars, extVars, now, current_time, response, issued>>

\* _refresh_token, lines 113-129: raise_for_status, response.json()["access_token"]
HandleResponse(t) ==
    /\ pc[t] = "answered"
    /\ IF response[t].status # "2xx"
       THEN Raise(t, "HTTPStatusError")
       ELSE IF ~response[t].has_token
       THEN Raise(t, "KeyError")
       ELSE /\ token' = response[t].access_token
            /\ pc' = [pc EXCEPT ![t] = "decode"]
            /\ UNCHANGED <<token_expiry, lock, burst>>
    /\ UNCHANGED <<provVars, today, jobVars, raceVars, extVars, now, current_time, response, issued>>

\* line 132, and the end of the with block
Decode(t) ==
    /\ pc[t] = "decode"
    /\ token_expiry' = _decode_token_expiry(token)
    /\ lock' = NoThread
    /\ pc' = [pc EXCEPT ![t] = "return"]
    /\ burst' = [burst EXCEPT !.first_expiry =
                    IF burst.requests = 1 THEN _decode_token_expiry(token) ELSE @]
    /\ UNCHANGED <<provVars, today, jobVars, raceVars, extVars, token, now, current_time, response, issued>>

\* The caller goes on: headers={"Authorization": f"Bearer {self._token}"}
Return(t) ==
    /\ pc[t] = "return"
    /\ pc' = [pc EXCEPT ![t] = "done"]
    /\ burst' = [burst EXCEPT !.th[t].outcome = "returned", !.th[t].seen = token]
    /\ UNCHANGED <<provVars, today, jobVars, raceVars, extVars, token, token_expiry, lock, now, current_time, response, issued>>

Finished(t) == pc[t] \in {"done", "raised"}

\* Every call has ended: the threads are free for the next requests.
Quiesce ==
    /\ \A t \in Threads : pc[t] = "idle" \/ Finished(t)
    /\ \E t \in Threads : Finished(t)
    /\ pc' = [t \in Threads |-> "idle"]
    /\ current_time' = [t \in Threads |-> 0]
    /\ response' = [t \in Threads |-> NoResponse]
    /\ burst' = NoBurst
    /\ UNCHANGED <<provVars, today, jobVars, raceVars, extVars, token, token_expiry, lock, now, issued>>

Tick ==
    /\ now + TickStep <= MaxTime
    /\ now' = now + TickStep
    /\ UNCHANGED <<provVars, today, jobVars, raceVars, extVars, token, token_expiry, lock, pc, current_time, response, issued, burst>>

TokNext ==
    \/ \E t \in Threads :
          \/ Enter(t) \/ FastPath(t) \/ Acquire(t) \/ Check(t) \/ Respond(t)
          \/ HandleResponse(t) \/ Decode(t) \/ Return(t)
    \/ Quiesce
    \/ Tick

\* ------------------------------------------------------------------------
\* Part III: handlers/user_management.py, delete_user_async and
\* get_deletion_status; main.py, what their caller receives
\* ------------------------------------------------------------------------

\* The usernames deletion requests name.
AsyncUsernames == {"jdoe", "asmith"}

NoAppId == ""
\* The ids under which the job service may list the user-deletion app.
AppIds == {"app-1"}
user_deletion_app_name == "portal-delete-user"

\* Analyses the job service accepts in one behaviour.
MaxAnalyses == 2

\* What init_dependencies may be given: no Formation client (and an app name); a
\* client and the app id; a client and the app name only (the id still to be looked
\* up); a client and neither.
FormationConfigs ==
    {[api |-> FALSE, app_id |-> NoAppId, app_name |-> user_deletion_app_name],
     [api |-> TRUE, app_id |-> "app-1", app_name |-> ""],
     [api |-> TRUE, app_id |-> NoAppId, app_name |-> user_deletion_app_name],
     [api |-> TRUE, app_id |-> NoAppId, app_name |-> ""]}

\* The backing systems, the cached app id and the job service as one value.
JobWorld ==
    [lu |-> ldapUsers, lg |-> ldapGroups, iu |-> irodsUsers, ih |-> irodsHomes,
     app_id |-> _formation_app_id, analyses |-> analyses]

\* ---- exceptions and what main.py makes of them ----

NoException == [type |-> "none", status_code |-> 0, detail |-> ""]

\* The non-2xx statuses a request to the job service or to its token endpoint may
\* be answered with.
ErrorStatuses == {404, 502}

\* r.raise_for_status() in the step `raised_by` of the Formation client
HTTPStatusError(status_code, raised_by) ==
    [type |-> "HTTPStatusError", status_code |-> status_code, detail |-> raised_by]

NoBody == [user |-> "", analysis_id |-> 0, status |-> ""]

\* A run of a job handler: a run of Part I with the exception that ended it (exc),
\* the value the handler returns (ret) and whether the client's cached token is
\* valid (fresh).
JobStart(w, expired) ==
    [w |-> w, n |-> 0, err |-> FALSE, log |-> << >>, exc |-> NoException,
     ret |-> NoBody, fresh |-> ~expired]

\* raise HTTPException(status_code, detail): the handler ends without a further call.
HTTPException(x, status_code, detail) ==
    [x EXCEPT !.err = TRUE,
              !.exc = [type |-> "HTTPException", status_code |-> status_code,
                       detail |-> detail]]

\* main.py: http_exception_handler answers an HTTPException with its status code
\* and detail; exception_handling_middleware answers any other exception with 500
\* and str(e).
exception_handling_middleware(x) ==
    IF ~x.err THEN [status_code |-> 200, error |-> NoException, body |-> x.ret]
    ELSE IF x.exc.type = "HTTPException"
    THEN [status_code |-> x.exc.status_code, error |-> x.exc, body |-> NoBody]
    ELSE [status_code |-> 500, error |-> x.exc, body |-> NoBody]

\* ---- formation.py: the requests of the client ----

\* Formation._ensure_valid_token as one call sees it: nothing is sent while the
\* cached token is valid; otherwise the token endpoint is asked (Part II) and an
\* error of that request ends the call.
_ensure_valid_token(x, fail, status) ==
    LET Asked(y) ==
            IF y.err THEN [y EXCEPT !.exc = HTTPStatusError(status, "_refresh_token")]
            ELSE [y EXCEPT !.fresh = TRUE]
    IN  IF x.err \/ x.fresh THEN x
        ELSE Asked(Do(x, fail, "formation._refresh_token", Read(x.w)))

\* An answer of the job service: 2xx with the service as it then is, or an error.
Answer(status_code, w) == [ok |-> status_code = 200, w |-> w, status_code |-> status_code]

\* A method of the client: _ensure_valid_token(), the request, r.raise_for_status().
Request(x, fail, status, name, r) ==
    LET Sent(t, y) ==
            IF y.err /\ ~t.err
            THEN [y EXCEPT !.exc = HTTPStatusError(IF r.ok THEN status ELSE r.status_code,
                                                    name)]
            ELSE y
        Authorized(t) == Sent(t, Do(t, fail, name, r))
    IN  Authorized(_ensure_valid_token(x, fail, status))

\* POST app/launch/<system_id>/<app_id>: the service records the analysis, as
\* submitted or as running already.  It answers with the id and, unless answer is
\* NoStatus, with that status.
NoStatus == ""
Statuses == {"Submitted", "Running", "Completed"}
launch_analysis(w, app_id, submission, answer) ==
    Answer(200, [w EXCEPT !.analyses =
                    Append(@, [app_id |-> app_id, submission |-> submission,
                               status |-> IF answer = NoStatus THEN "Submitted" ELSE answer])])

\* GET /apps/analyses/<analysis_id>/status: the ids of the service are the positions
\* in analyses; any other id is answered 404.
get_analysis_status(w, analysis_id) ==
    IF analysis_id \in 1..Len(w.analyses) THEN Answer(200, w) ELSE Answer(404, w)

\* ---- the parameter groups of an app ----

\* str.lower(), on the letters the labels are written with
lower_char(c) ==
    CASE c = "A" -> "a" [] c = "E" -> "e" [] c = "I" -> "i" [] c = "L" -> "l"
      [] c = "M" -> "m" [] c = "N" -> "n" [] c = "R" -> "r" [] c = "S" -> "s"
      [] c = "U" -> "u"
      [] OTHER -> c
lower(label) == [i \in 1..Len(label) |-> lower_char(label[i])]

\* sub in s, for strings as sequences of characters
contains(s, sub) ==
    \E i \in 0..(Len(s) - Len(sub)) : SubSeq(s, i + 1, i + Len(sub)) = sub

label_matches(param) ==
    \/ contains(lower(param.label), <<"u", "s", "e", "r", "n", "a", "m", "e">>)
    \/ contains(lower(param.label), <<"u", "s", "e", "r", " ", "n", "a", "m", "e">>)

\* type Text, visible, required, no default value, no name (a positional argument)
positional_text(param) ==
    /\ param.type = "Text"
    /\ param.isVisible
    /\ param.required
    /\ param.defaultValue = ""
    /\ param.name = ""

visible_required(param) == param.isVisible /\ param.required

\* The first element of seq for which the test holds is seq[First(S)], S the
\* positions where it holds.
Min(S) == CHOOSE i \in S : \A j \in S : i <= j
Max(S) == CHOOSE i \in S : \A j \in S : i >= j

NoParam == ""

\* lines 167-196: the parameter one group yields, NoParam when it yields none
group_username_param(parameters) ==
    LET byLabel == {i \in 1..Len(parameters) : label_matches(parameters[i])}
        byType == {i \in 1..Len(parameters) : positional_text(parameters[i])}
        fallback == {i \in 1..Len(parameters) : visible_required(parameters[i])}
    IN  IF byLabel # {} THEN parameters[Min(byLabel)].id
        ELSE IF byType # {} THEN parameters[Min(byType)].id
        ELSE IF fallback # {} THEN parameters[Max(fallback)].id
        ELSE NoParam

\* lines 160-198: the groups in order, the first that yields a parameter decides
username_param_id(groups) ==
    LET yielding == {g \in 1..Len(groups) : group_username_param(groups[g]) # NoParam}
    IN  IF yielding = {} THEN NoParam
        ELSE group_username_param(groups[Min(yielding)])

\* The parameters the groups of an app are made of: labelled "Username", labelled
\* "USER NAME", an unlabelled positional text parameter, a labelled flag, a text
\* parameter with a default value, a hidden parameter.
Parameters ==
    {[id |-> "step1_username", label |-> <<"U", "s", "e", "r", "n", "a", "m", "e">>,
      type |-> "Text", isVisible |-> TRUE, required |-> TRUE, defaultValue |-> "",
      name |-> ""],
     [id |-> "step1_user_name", label |-> <<"U", "S", "E", "R", " ", "N", "A", "M", "E">>,
      type |-> "Text", isVisible |-> TRUE, required |-> TRUE, defaultValue |-> "",
      name |-> "--user"],
     [id |-> "step1_positional", label |-> << >>,
      type |-> "Text", isVisible |-> TRUE, required |-> TRUE, defaultValue |-> "",
      name |-> ""],
     [id |-> "step1_flag", label |-> <<"E", "m", "a", "i", "l">>,
      type |-> "Flag", isVisible |-> TRUE, required |-> TRUE, defaultValue |-> "",
      name |-> "--email"],
     [id |-> "step1_default", label |-> << >>,
      type |-> "Text", isVisible |-> TRUE, required |-> TRUE, defaultValue |-> "de",
      name |-> ""],
     [id |-> "step1_hidden", label |-> << >>,
      type |-> "Text", isVisible |-> FALSE, required |-> TRUE, defaultValue |-> "",
      name |-> ""]}

Param(id) == CHOOSE param \in Parameters : param.id = id

\* Parameters in a group and groups in an app.
MaxParams == 2
MaxGroups == 2

SeqsUpTo(S, n) == UNION {[1..k -> S] : k \in 0..n}

ParamGroups == SeqsUpTo(Parameters, MaxParams)
ParamGroupLists == SeqsUpTo(ParamGroups, MaxGroups)

\* The apps the deletion requests of SpecAsync are served with: the labelled
\* parameter after a positional one; no parameter that qualifies.
AsyncAppParams ==
    {<< <<Param("step1_positional"), Param("step1_username")>> >>,
     << <<Param("step1_hidden")>> >>}

\* ---- handlers/user_management.py ----

_ensure_formation_configured(x) ==
    IF ~_formation_api THEN HTTPException(x, 503, "Formation service not configured")
    ELSE x

\* dependencies.set_formation_app_id
set_formation_app_id(x, app_id) == [x EXCEPT !.w.app_id = app_id]

\* Faulty variant of _resolve_formation_app_id: the id looked up is used and not kept.
_resolve_formation_app_id_uncached(x, fail, status, found) ==
    LET Looked(y) ==
            IF y.err \/ found = NoAppId
            THEN HTTPException(y, 500, "app ID not configured")
            ELSE y
    IN  IF x.err \/ x.w.app_id # NoAppId THEN x
        ELSE IF _formation_app_name # ""
        THEN Looked(Request(x, fail, status, "formation.search_apps", Answer(200, x.w)))
        ELSE HTTPException(x, 500, "app ID not configured")

\* Faulty variant of _resolve_formation_app_id: no app name configured is taken for
\* an app id still to come and the handler goes on.
_resolve_formation_app_id_lenient(x, fail, status, found) ==
    LET Looked(y) ==
            IF y.err \/ found = NoAppId
            THEN HTTPException(y, 500, "app ID not configured")
            ELSE set_formation_app_id(y, found)
    IN  IF x.err \/ x.w.app_id # NoAppId THEN x
        ELSE IF _formation_app_name # ""
        THEN Looked(Request(x, fail, status, "formation.search_apps", Answer(200, x.w)))
        ELSE x

\* found is what get_app_id_by_name returns: an id, or NoAppId for None.  An
\* exception of the lookup is caught (except Exception), printed and followed, like
\* None, by HTTPException(500).
_resolve_formation_app_id(x, fail, status, found) ==
    LET Looked(y) ==
            IF y.err \/ found = NoAppId
            THEN HTTPException(y, 500, "app ID not configured")
            ELSE set_formation_app_id(y, found)
    IN  IF x.err \/ x.w.app_id # NoAppId THEN x
        ELSE IF _formation_app_name # ""
        THEN Looked(Request(x, fail, status, "formation.search_apps", Answer(200, x.w)))
        ELSE HTTPException(x, 500, "app ID not configured")

\* Faulty variant of _get_formation_app_username_param_id: the parameters are not
\* fetched again for an app a job was already submitted to.
_get_formation_app_username_param_id_cached(x, fail, status) ==
    LET Fetched(y) ==
            IF y.err THEN y
            ELSE IF username_param_id(app_params) = NoParam
            THEN HTTPException(y, 500, "Could not find username parameter")
            ELSE y
    IN  IF x.err THEN x
        ELSE IF \E i \in 1..Len(x.w.analyses) : x.w.analyses[i].app_id = x.w.app_id
        THEN x
        ELSE Fetched(Request(x, fail, status, "formation.get_app_parameters",
                             Answer(200, x.w)))

\* get_app_parameters, then the search through the groups it returned.
_get_formation_app_username_param_id(x, fail, status) ==
    LET Fetched(y) ==
            IF y.err THEN y
            ELSE IF username_param_id(app_params) = NoParam
            THEN HTTPException(y, 500, "Could not find username parameter")
            ELSE y
    IN  IF x.err THEN x
        ELSE Fetched(Request(x, fail, status, "formation.get_app_parameters",
                             Answer(200, x.w)))

\* lines 489-497: the submission
submission(username) ==
    [name |-> <<"user-deletion", username, now>>,
     config |-> {<<username_param_id(app_params), username>>}]

\* lines 506-514: the handler's return value, from the service's answer
deletion_response(s, username, answer) ==
    IF s.err THEN s
    ELSE [s EXCEPT !.ret = [user |-> username, analysis_id |-> Len(s.w.analyses),
                            status |-> IF answer = NoStatus THEN "Submitted" ELSE answer]]

\* Faulty variant of delete_user_async: after the submission the handler deletes the
\* user from the object store and the directory itself.
delete_user_async_and_locally(w, fail, status, expired, username, found, answer) ==
    LET Submitted(s) ==
            IF username \in Usernames
            THEN _delete_user_from_ldap(_delete_user_from_datastore(s, fail, username),
                                        fail, username)
            ELSE s
        Resolved(a) ==
            deletion_response(
                Submitted(Request(_get_formation_app_username_param_id(a, fail, status),
                                  fail, status, "formation.launch_analysis",
                                  launch_analysis(a.w, a.w.app_id, submission(username),
                                                  answer))),
                username, answer)
    IN  Resolved(_resolve_formation_app_id(_ensure_formation_configured(JobStart(w, expired)),
                                           fail, status, found))

\* Faulty variant of delete_user_async: the Formation client is looked at only when
\* the job is about to be submitted.
delete_user_async_configured_late(w, fail, status, expired, username, found, answer) ==
    LET Resolved(a) ==
            deletion_response(
                Request(_ensure_formation_configured(
                            _get_formation_app_username_param_id(a, fail, status)),
                        fail, status, "formation.launch_analysis",
                        launch_analysis(a.w, a.w.app_id, submission(username), answer)),
                username, answer)
    IN  Resolved(_resolve_formation_app_id(JobStart(w, expired), fail, status, found))

\* Faulty variant of delete_user_async: the job is named after the time alone.
delete_user_async_unnamed(w, fail, status, expired, username, found, answer) ==
    LET Resolved(a) ==
            deletion_response(
                Request(_get_formation_app_username_param_id(a, fail, status),
                        fail, status, "formation.launch_analysis",
                        launch_analysis(a.w, a.w.app_id,
                                        [submission(username) EXCEPT
                                            !.name = <<"user-deletion", "", now>>],
                                        answer)),
                username, answer)
    IN  Resolved(_resolve_formation_app_id(_ensure_formation_configured(JobStart(w, expired)),
                                           fail, status, found))

delete_user_async(w, fail, status, expired, username, found, answer) ==
    LET Resolved(a) ==
            deletion_response(
                Request(_get_formation_app_username_param_id(a, fail, status),
                        fail, status, "formation.launch_analysis",
                        launch_analysis(a.w, a.w.app_id, submission(username), answer)),
                username, answer)
    IN  Resolved(_resolve_formation_app_id(_ensure_formation_configured(JobStart(w, expired)),
                                           fail, status, found))

\* Faulty variant of get_deletion_status: an analysis this process submitted is
\* taken to be done once it is no longer queued.
get_deletion_status_guessing(w, fail, status, expired, analysis_id) ==
    LET Got(s) ==
            IF s.err THEN s
            ELSE [s EXCEPT !.ret =
                     [user |-> "", analysis_id |-> analysis_id,
                      status |-> IF s.w.analyses[analysis_id].status = "Submitted"
                                 THEN "Submitted" ELSE "Completed"]]
    IN  Got(Request(_ensure_formation_configured(JobStart(w, expired)), fail, status,
                    "formation.get_analysis_status", get_analysis_status(w, analysis_id)))

\* lines 569-574: the service's answer is returned as it is
get_deletion_status(w, fail, status, expired, analysis_id) ==
    LET Got(s) ==
            IF s.err THEN s
            ELSE [s EXCEPT !.ret = [user |-> "", analysis_id |-> analysis_id,
                                    status |-> s.w.analyses[analysis_id].status]]
    IN  Got(Request(_ensure_formation_configured(JobStart(w, expired)), fail, status,
                    "formation.get_analysis_status", get_analysis_status(w, analysis_id)))

\* Calls a run of a job handler may be chosen to fail at.
MaxAsyncFail == 4

\* A job handler has run: the backing systems, the cache and the service as the run
\* left them, and what the caller received.
JobCommit(op, req, fail, r) ==
    /\ fail <= r.n
    /\ ldapUsers' = r.w.lu
    /\ ldapGroups' = r.w.lg
    /\ irodsUsers' = r.w.iu
    /\ irodsHomes' = r.w.ih
    /\ _formation_app_id' = r.w.app_id
    /\ analyses' = r.w.analyses
    /\ reply' = exception_handling_middleware(r)
    /\ last' = [op |-> op, req |-> req, ok |-> ~r.err, log |-> r.log, fail |-> fail,
                after |-> After(op, req)]
    /\ UNCHANGED <<today, tokVars, raceVars, extVars, _formation_api, _formation_app_name,
                   app_params>>

\* The choices that make a difference to a run: the status of the failing request,
\* what the lookup finds when there is a lookup, what the service says of the
\* analysis when it accepts one.
StatusChoices(fail) == IF fail = 0 THEN {502} ELSE ErrorStatuses
FoundChoices ==
    IF _formation_app_id = NoAppId /\ _formation_app_name # ""
    THEN AppIds \cup {NoAppId} ELSE {NoAppId}
AnswerChoices(fail) == IF fail = 0 THEN {"Running", NoStatus} ELSE {NoStatus}

DeleteUserAsync ==
    /\ Len(analyses) < MaxAnalyses
    /\ \E username \in AsyncUsernames, fail \in 0..MaxAsyncFail, expired \in BOOLEAN :
       \E status \in StatusChoices(fail), found \in FoundChoices,
          answer \in AnswerChoices(fail) :
          JobCommit("delete_user_async", [username |-> username], fail,
                    delete_user_async(JobWorld, fail, status, expired, username, found,
                                      answer))

\* The ids status requests name: those of the service and one it does not know.
GetDeletionStatus ==
    \E analysis_id \in 1..(MaxAnalyses + 1), fail \in 0..MaxAsyncFail, expired \in BOOLEAN :
      \E status \in StatusChoices(fail) :
        JobCommit("get_deletion_status", [analysis_id |-> analysis_id], fail,
                  get_deletion_status(JobWorld, fail, status, expired, analysis_id))

\* The execution backend takes up a submitted analysis, or ends a running one.
ExecutionBackend ==
    \E i \in 1..Len(analyses) :
        \E s \in Statuses :
            /\ \/ analyses[i].status = "Submitted" /\ s = "Running"
               \/ analyses[i].status = "Running" /\ s = "Completed"
            /\ analyses' = [analyses EXCEPT ![i].status = s]
            /\ UNCHANGED <<provVars, today, tokVars, raceVars, extVars, _formation_api,
                           _formation_app_id, _formation_app_name, app_params, reply>>

NoReply == [status_code |-> 0, error |-> NoException, body |-> NoBody]

JobInit(config, groups) ==
    /\ _formation_api = config.api
    /\ _formation_app_id = config.app_id
    /\ _formation_app_name = config.app_name
    /\ analyses = << >>
    /\ app_params = groups
    /\ reply = NoReply

\* The request whose successful add_user made the accounts the deletions are about.
ProvisionedBy == CHOOSE user \in Payloads : validate_uid_number(user.user_uid)

\* The service starts in any configuration, with the user jdoe provisioned.
AsyncInit ==
    /\ today = 0
    /\ \E w \in {add_user(EmptyWorld, 0, ProvisionedBy, FALSE).w} :
          /\ ldapUsers = w.lu
          /\ ldapGroups = w.lg
          /\ irodsUsers = w.iu
          /\ irodsHomes = w.ih
    /\ last = NoCall
    /\ TokInit
    /\ \E config \in FormationConfigs, groups \in AsyncAppParams : JobInit(config, groups)
    /\ NoCalls
    /\ ExtIdle

AsyncNext == DeleteUserAsync \/ GetDeletionStatus \/ ExecutionBackend

\* One deletion request, served without an error of the job service, for each app
\* the parameter groups can describe.
ResolveParameter ==
    /\ last = NoCall
    /\ \E answer \in {"Running", NoStatus} :
          JobCommit("delete_user_async", [username |-> "jdoe"], 0,
                    delete_user_async(JobWorld, 0, 502, FALSE, "jdoe", NoAppId, answer))

ParamInit ==
    /\ ProvInit
    /\ TokInit
    /\ \E groups \in ParamGroupLists :
          JobInit(CHOOSE config \in FormationConfigs : config.app_id # NoAppId, groups)
    /\ NoCalls
    /\ ExtIdle

\* ------------------------------------------------------------------------
\* Part IV: add_user calls running at the same time (the handlers are plain
\* functions, which the server runs on the threads of its pool)
\* ------------------------------------------------------------------------

\* A call of a caller has ended.
Ended(c) == c.pc \in {"done", "raised"}

\* The call `name` was answered: the caller goes on at `next`.
Answered(w, c, name, next) ==
    [w |-> w, c |-> [c EXCEPT !.pc = next, !.log = Append(@, [call |-> name, ok |-> TRUE])]]

\* Faulty variant of Called: an exception of the backend is caught and the call
\* goes on.
Called_and_caught(c, name, r, next) ==
    [w |-> r.w,
     c |-> [c EXCEPT !.pc = next, !.log = Append(@, [call |-> name, ok |-> r.ok])]]

\* The call `name` to the backend, answered with r: an exception ends add_user.
Called(c, name, r, next) ==
    IF r.ok THEN Answered(r.w, c, name, next)
    ELSE [w |-> r.w,
          c |-> [c EXCEPT !.pc = "raised", !.log = Append(@, [call |-> name, ok |-> FALSE])]]

\* Where create_datastore_user_with_permissions goes on after the permissions it
\* read: the chmod for ipcservices, the chmod for the admin, or the end.
after_permissions(current_perms) ==
    IF ~owns(current_perms, ipcservices_user) THEN "irods.chmod ipcservices"
    ELSE IF ~owns(current_perms, ds_admin_user) THEN "irods.chmod admin"
    ELSE "done"

\* One backend call of add_user (create_ldap_user_with_groups, then
\* create_datastore_user_with_permissions with ensure_user_exists), made in the
\* state w of the backing systems by the caller c, who stands at c.pc; what the call
\* returns decides where the caller goes on.
add_user_step(w, c, autoHome) ==
    LET user == c.user
        username == c.user.username
    IN  CASE c.pc = "ldap.get_user" ->
               Answered(w, c, "ldap.get_user",
                        IF get_user(w, username).exists
                        THEN "ldap.get_user_groups everyone" ELSE "ldap.create_user")
          [] c.pc = "ldap.create_user" ->
               Called(c, "ldap.create_user", create_user(w, days_since_epoch, user),
                      "ldap.change_password")
          [] c.pc = "ldap.change_password" ->
               Called(c, "ldap.change_password", change_password(w, username, user.password),
                      "ldap.get_user_groups everyone")
          [] c.pc = "ldap.get_user_groups everyone" ->
               Answered(w, c, "ldap.get_user_groups",
                        IF ldap_everyone_group \in get_user_groups(w, username)
                        THEN "ldap.get_user_groups community"
                        ELSE "ldap.add_user_to_group everyone")
          [] c.pc = "ldap.add_user_to_group everyone" ->
               Called(c, "ldap.add_user_to_group",
                      add_user_to_group(w, username, ldap_everyone_group),
                      "ldap.get_user_groups community")
          [] c.pc = "ldap.get_user_groups community" ->
               Answered(w, c, "ldap.get_user_groups",
                        IF ldap_community_group \in get_user_groups(w, username)
                        THEN "irods.user_exists"
                        ELSE "ldap.add_user_to_group community")
          [] c.pc = "ldap.add_user_to_group community" ->
               Called(c, "ldap.add_user_to_group",
                      add_user_to_group(w, username, ldap_community_group),
                      "irods.user_exists")
          [] c.pc = "irods.user_exists" ->
               Answered(w, c, "irods.user_exists",
                        IF user_exists(w, username) THEN "irods.get_user"
                        ELSE "irods.create_user")
          [] c.pc = "irods.get_user" ->
               Called(c, "irods.get_user",
                      IF user_exists(w, username) THEN Ok(w) ELSE Rejected(w),
                      "irods.change_password")
          [] c.pc = "irods.create_user" ->
               Called(c, "irods.create_user", ds_create_user(w, username, autoHome),
                      "irods.path_exists")
          [] c.pc = "irods.path_exists" ->
               Answered(w, c, "irods.path_exists",
                        IF path_exists(w, username) THEN "irods.change_password"
                        ELSE "irods.collections_create")
          [] c.pc = "irods.collections_create" ->
               Called(c, "irods.collections_create", collections_create(w, username),
                      "irods.chmod home")
          [] c.pc = "irods.chmod home" ->
               Called(c, "irods.chmod", chmod(w, PathPermission(username, "own", username)),
                      "irods.change_password")
          [] c.pc = "irods.change_password" ->
               Called(c, "irods.change_password",
                      ds_change_password(w, username, user.password),
                      "irods.path_permissions")
          [] c.pc = "irods.path_permissions" ->
               Called([c EXCEPT !.current_perms = path_permissions(w, username)],
                      "irods.path_permissions", get_path_permissions(w, username),
                      after_permissions(path_permissions(w, username)))
          [] c.pc = "irods.chmod ipcservices" ->
               Called(c, "irods.chmod",
                      chmod(w, PathPermission(ipcservices_user, "own", username)),
                      IF ~owns(c.current_perms, ds_admin_user) THEN "irods.chmod admin"
                      ELSE "done")
          [] c.pc = "irods.chmod admin" ->
               Called(c, "irods.chmod",
                      chmod(w, PathPermission(ds_admin_user, "own", username)), "done")

\* A request arrives: the server hands it to a thread of its pool.
BeginAddUser(t) ==
    /\ calls[t].pc = "idle"
    /\ \E user \in {u \in Payloads : validate_uid_number(u.user_uid)} :
          calls' = [calls EXCEPT ![t] = [@ EXCEPT !.pc = "ldap.get_user", !.user = user]]
    /\ UNCHANGED <<provVars, today, tokVars, jobVars, extVars>>

\* The caller t makes its next backend call.
AddUserStep(t) ==
    /\ calls[t].pc # "idle"
    /\ ~Ended(calls[t])
    /\ \E autoHome \in (IF calls[t].pc = "irods.create_user"
                        THEN AutoHomeChoices(calls[t].user.username) ELSE {FALSE}) :
          LET s == add_user_step(World, calls[t], autoHome)
          IN  /\ ldapUsers' = s.w.lu
              /\ ldapGroups' = s.w.lg
              /\ irodsUsers' = s.w.iu
              /\ irodsHomes' = s.w.ih
              /\ calls' = [calls EXCEPT ![t] = s.c]
    /\ UNCHANGED <<last, today, tokVars, jobVars, extVars>>

RaceNext == \E t \in Callers : BeginAddUser(t) \/ AddUserStep(t)

\* The user is unknown, or (after an add_user that failed at the object store) in
\* the directory and its groups only.
RaceInit ==
    /\ today = 0
    /\ \E w \in {EmptyWorld,
                 create_ldap_user_with_groups(Start(EmptyWorld), 0, ProvisionedBy,
                                              ldap_everyone_group, ldap_community_group).w} :
          /\ ldapUsers = w.lu
          /\ ldapGroups = w.lg
          /\ irodsUsers = w.iu
          /\ irodsHomes = w.ih
    /\ last = NoCall
    /\ TokInit
    /\ JobInit(CHOOSE config \in FormationConfigs : ~config.api, << >>)
    /\ NoCalls
    /\ ExtIdle

\* ------------------------------------------------------------------------
\* Part V: formation.py, search_apps and get_app_id_by_name
\* ------------------------------------------------------------------------

\* Apps a listing of the job service holds at most.
MaxApps == 3

SystemIds == {"de", "hpc"}
\* App names that differ in case only, and one that differs in a letter.
AppNames == {<<"r", "m">>, <<"R", "m">>, <<"r", "M">>, <<"r", "n">>}
\* The names get_app_id_by_name is asked for.
AppNameQueries == {<<"r", "m">>, <<"R", "m">>}

\* The id of the app listed at position i.
ListedIds == <<"app-1", "app-2", "app-3", "app-4">>

\* What GET /apps may answer with: apps of any system, under any of the names.
Listings ==
    UNION {[1..n -> [name : AppNames, system_id : SystemIds]] : n \in 0..MaxApps}

\* result["apps"] of search_apps: the apps of the answer that are of system_id, in
\* the order listed, each with its id.
search_apps(answer, system_id) ==
    SelectSeq([i \in 1..Len(answer) |->
                  [id |-> ListedIds[i], name |-> answer[i].name,
                   system_id |-> answer[i].system_id]],
              LAMBDA app : app.system_id = system_id)

\* Faulty variant of get_app_id_by_name: one pass that compares without case.
get_app_id_by_name_first_match(answer, system_id, app_name) ==
    LET apps == search_apps(answer, system_id)
        same == {i \in 1..Len(apps) : lower(apps[i].name) = lower(app_name)}
    IN  IF same # {} THEN apps[Min(same)].id ELSE NoAppId

\* The id of the first app named app_name; without one, of the first app named so
\* when case is ignored; NoAppId for None.
get_app_id_by_name(answer, system_id, app_name) ==
    LET apps == search_apps(answer, system_id)
        exact == {i \in 1..Len(apps) : apps[i].name = app_name}
        same == {i \in 1..Len(apps) : lower(apps[i].name) = lower(app_name)}
    IN  IF exact # {} THEN apps[Min(exact)].id
        ELSE IF same # {} THEN apps[Min(same)].id
        ELSE NoAppId

\* One lookup by name in the listing the service holds.
GetAppIdByName ==
    \E system_id \in SystemIds, app_name \in AppNameQueries :
        /\ lookup' = [system_id |-> system_id, app_name |-> app_name,
                      found |-> get_app_id_by_name(listing, system_id, app_name)]
        /\ UNCHANGED <<provVars, today, tokVars, jobVars, raceVars, listing, api_config,
                       served, members, irodsServices, attr_value, decoded, portal_db, script>>

AppsInit ==
    /\ ProvInit
    /\ TokInit
    /\ JobInit(CHOOSE config \in FormationConfigs : ~config.api, << >>)
    /\ NoCalls
    /\ listing \in Listings
    /\ lookup = NoLookup
    /\ api_config = DefaultConfig
    /\ served = NoRequest
    /\ members = {}
    /\ irodsServices = NoServices
    /\ attr_value = Missing
    /\ decoded = NotDecoded
    /\ portal_db = NoPortalDb
    /\ script = NoRun

\* ------------------------------------------------------------------------
\* Part VI: handlers/auth.py, and the endpoints with the dependencies their
\* signatures declare
\* ------------------------------------------------------------------------

\* Calls a handler run of Part VI may be chosen to fail at.
MaxAuthFail == 1

\* The configurations of the "auth" section: on with credentials, off, on without
\* credentials configured.
AuthConfigs ==
    {DefaultConfig.auth,
     [enabled |-> FALSE, username |-> "portal", password |-> get_password_hash("secret")],
     [enabled |-> TRUE, username |-> "", password |-> << >>]}

\* A request without an Authorization header.
NoCredentials == [given |-> FALSE, username |-> "", password |-> ""]
\* What a request may carry: nothing, or Basic credentials.
Credentials ==
    {NoCredentials} \cup [given : {TRUE}, username : {"portal", "other"},
                          password : {"secret", "guess"}]

verify_password(plain_password, hashed_password) ==
    get_password_hash(plain_password) = hashed_password

authenticate_user(username, password) ==
    LET auth_config == api_config.auth
    IN  IF ~auth_config.enabled THEN TRUE
        ELSE IF auth_config.username = "" \/ auth_config.password = << >> THEN FALSE
        ELSE /\ username = auth_config.username
             /\ verify_password(password, auth_config.password)

\* The dependency behind AuthDep: the status it ends with (200 for a return) and
\* the user it returns.  Depends(security) comes first: HTTPBasic() answers a
\* request without credentials with 401 itself.
get_current_user(credentials) ==
    IF ~credentials.given THEN [status_code |-> 401, user |-> ""]
    ELSE IF ~api_config.auth.enabled THEN [status_code |-> 200, user |-> "anonymous"]
    ELSE IF ~authenticate_user(credentials.username, credentials.password)
    THEN [status_code |-> 401, user |-> ""]
    ELSE [status_code |-> 200, user |-> credentials.username]

\* The endpoints of Part VI and whether their signature has `current_user: AuthDep`.
Endpoints == {"add_user", "delete_user", "create_datastore_user", "add_to_mailing_list"}
AuthDep(endpoint) == endpoint \in {"add_user", "delete_user"}

\* FastAPI resolves the dependencies of an endpoint before it calls the handler: the
\* handler runs unless a dependency raised.
Admitted(endpoint, credentials) ==
    AuthDep(endpoint) => get_current_user(credentials).status_code = 200

\* The dependency raised HTTPException(401): the handler is not called.
Refuse(endpoint, credentials) ==
    /\ served' = [endpoint |-> endpoint, credentials |-> credentials]
    /\ reply' = [status_code |-> 401,
                 error |-> [type |-> "HTTPException", status_code |-> 401,
                            detail |-> "Incorrect username or password"],
                 body |-> NoBody]
    /\ UNCHANGED <<provVars, today, tokVars, raceVars, _formation_api, _formation_app_id,
                   _formation_app_name, analyses, app_params, listing, lookup,
                   api_config, members, irodsServices, attr_value, decoded, portal_db, script>>

\* What the caller of a handler of Part I receives: 200, or 500 for an exception.
Outcome(r) ==
    IF r.err
    THEN [status_code |-> 500,
          error |-> [type |-> "Exception", status_code |-> 500, detail |-> r.log[Len(r.log)]],
          body |-> NoBody]
    ELSE [status_code |-> 200, error |-> NoException, body |-> NoBody]

\* The handler of the endpoint ran as r.
Handle(endpoint, credentials, req, fail, r) ==
    /\ fail <= r.n
    /\ ldapUsers' = r.w.lu
    /\ ldapGroups' = r.w.lg
    /\ irodsUsers' = r.w.iu
    /\ irodsHomes' = r.w.ih
    /\ last' = [op |-> endpoint, req |-> req, ok |-> ~r.err, log |-> r.log, fail |-> fail,
                after |-> After(endpoint, req)]
    /\ served' = [endpoint |-> endpoint, credentials |-> credentials]
    /\ reply' = Outcome(r)
    /\ UNCHANGED <<today, tokVars, raceVars, _formation_api, _formation_app_id,
                   _formation_app_name, analyses, app_params, listing, lookup,
                   api_config, members, irodsServices, attr_value, decoded, portal_db, script>>

ServeAddUser ==
    \E credentials \in Credentials, user \in Payloads, fail \in 0..MaxAuthFail :
        \E autoHome \in AutoHomeChoices(user.username) :
            IF Admitted("add_user", credentials)
            THEN Handle("add_user", credentials, user, fail,
                        add_user(World, fail, user, autoHome))
            ELSE Refuse("add_user", credentials)

ServeDeleteUser ==
    \E credentials \in Credentials, username \in Usernames, fail \in 0..MaxAuthFail :
        IF Admitted("delete_user", credentials)
        THEN Handle("delete_user", credentials, [username |-> username], fail,
                    delete_user(World, fail, username))
        ELSE Refuse("delete_user", credentials)

ServeCreateDatastoreUser ==
    \E credentials \in Credentials, request \in DatastoreRequests,
       fail \in 0..MaxAuthFail :
        \E autoHome \in AutoHomeChoices(request.username) :
            IF Admitted("create_datastore_user", credentials)
            THEN Handle("create_datastore_user", credentials, request, fail,
                        create_datastore_user(World, fail, request, autoHome))
            ELSE Refuse("create_datastore_user", credentials)

\* ---- mailman.py and handlers/mailing_list_management.py ----

ListNames == {"announce"}
Emails == {"jdoe@example.org"}

\* Mailman.add_member: the address is on the list afterwards.
add_member(m, list_name, email) == m \cup {<<list_name, email>>}
\* Mailman.remove_member
remove_member(m, list_name, email) == m \ {<<list_name, email>>}

\* add_to_mailing_list: 503 when mailman is not enabled; else one add_member call,
\* whose exception becomes HTTPException(500).
add_to_mailing_list(m, fail, listname, email) ==
    IF ~api_config.mailman_enabled
    THEN [m |-> m, n |-> 0, err |-> TRUE, status_code |-> 503, log |-> << >>]
    ELSE IF fail = 1
    THEN [m |-> m, n |-> 1, err |-> TRUE, status_code |-> 500,
          log |-> <<"mailman.add_member">>]
    ELSE [m |-> add_member(m, listname, email), n |-> 1, err |-> FALSE,
          status_code |-> 200, log |-> <<"mailman.add_member">>]

ServeAddToMailingList ==
    \E credentials \in Credentials, listname \in ListNames, email \in Emails,
       fail \in 0..MaxAuthFail :
        IF Admitted("add_to_mailing_list", credentials)
        THEN LET r == add_to_mailing_list(members, fail, listname, email)
                 req == [listname |-> listname, email |-> email]
             IN  /\ fail <= r.n
                 /\ members' = r.m
                 /\ last' = [op |-> "add_to_mailing_list", req |-> req, ok |-> ~r.err,
                             log |-> r.log, fail |-> fail,
                             after |-> After("add_to_mailing_list", req)]
                 /\ served' = [endpoint |-> "add_to_mailing_list",
                               credentials |-> credentials]
                 /\ reply' = [status_code |-> r.status_code,
                              error |-> IF r.err
                                        THEN [type |-> "HTTPException",
                                              status_code |-> r.status_code,
                                              detail |-> "add_to_mailing_list"]
                                        ELSE NoException,
                              body |-> NoBody]
                 /\ UNCHANGED <<ldapUsers, ldapGroups, irodsUsers, irodsHomes, today,
                                tokVars, raceVars, _formation_api, _formation_app_id,
                                _formation_app_name, analyses, app_params, listing,
                                lookup, api_config, irodsServices, attr_value,
                                decoded, portal_db, script>>
        ELSE Refuse("add_to_mailing_list", credentials)

AuthNext ==
    ServeAddUser \/ ServeDeleteUser \/ ServeCreateDatastoreUser \/ ServeAddToMailingList

\* The API starts with empty backing systems, in any configuration of "auth" and
\* "mailman".
AuthInit ==
    /\ ProvInit
    /\ TokInit
    /\ JobInit(CHOOSE c \in FormationConfigs : ~c.api, << >>)
    /\ NoCalls
    /\ listing = << >>
    /\ lookup = NoLookup
    /\ api_config \in [auth : AuthConfigs, mailman_enabled : BOOLEAN]
    /\ served = NoRequest
    /\ members = {}
    /\ irodsServices = NoServices
    /\ attr_value = Missing
    /\ decoded = NotDecoded
    /\ portal_db = NoPortalDb
    /\ script = NoRun

\* ------------------------------------------------------------------------
\* Part VII: portal_datastore.py, register_service, and its handler
\* ------------------------------------------------------------------------

\* Calls a register_service run may be chosen to fail at.
MaxServiceFail == 9

\* irods_user of a DatastoreServiceRequest; NoIrodsUser for None.
NoIrodsUser == "None"
RegistrationRequests ==
    [username : Usernames, irods_path : ServicePaths,
     irods_user : {NoIrodsUser, "service-account"}]

\* The object store with the service collections.
ServiceWorld ==
    [lu |-> ldapUsers, lg |-> ldapGroups, iu |-> irodsUsers, ih |-> irodsHomes,
     sv |-> irodsServices]

\* path_exists(full_path)
service_path_exists(w, dir) == w.sv[dir].exists

\* session.collections.create(full_path).  The store makes the missing parent, the
\* user's home, with the collection or rejects the call: its choice, recurse.
service_collections_create(w, dir, recurse) ==
    IF w.sv[dir].exists \/ (~w.ih[dir[1]].exists /\ ~recurse) THEN Rejected(w)
    ELSE LET w1 == [w EXCEPT !.sv[dir] = [exists |-> TRUE, acl |-> {}, inherit |-> FALSE]]
         IN  IF w.ih[dir[1]].exists THEN Ok(w1)
             ELSE Ok([w1 EXCEPT !.ih[dir[1]] = [exists |-> TRUE, acl |-> {}]])

\* path_permissions(full_path): the access entries of the collection.  Whether the
\* store lists the inherit flag among them, as the entry <<"", "inherit">>, is its
\* choice, listsInherit.
service_path_permissions(w, dir, listsInherit) ==
    IF ~w.sv[dir].exists THEN {}
    ELSE w.sv[dir].acl \cup
         (IF w.sv[dir].inherit /\ listsInherit THEN {<<"", "inherit">>} ELSE {})

\* chmod on the service collection: "inherit" sets the flag, any other permission
\* the principal's access.
service_chmod(w, dir, perm) ==
    IF ~w.sv[dir].exists THEN Rejected(w)
    ELSE IF perm.permission = "inherit" THEN Ok([w EXCEPT !.sv[dir].inherit = TRUE])
    ELSE Ok([w EXCEPT !.sv[dir].acl =
                {a \in @ : a[1] # perm.username} \cup {<<perm.username, perm.permission>>}])

_set_permission_if_needed(x, fail, current_perms, username, permission, dir) ==
    IF <<username, permission>> \notin current_perms
    THEN Do(x, fail, "irods.chmod service",
            service_chmod(x.w, dir, PathPermission(username, permission, dir)))
    ELSE x

\* Faulty variant of register_service: the collection is created without asking
\* whether it exists.
register_service_create_unchecked(x, fail, username, irods_path, irods_user, autoHome, recurse, listsInherit) ==
    LET dir == <<username, irods_path>>
        Other(o, current_perms) ==
            IF irods_user # NoIrodsUser
            THEN _set_permission_if_needed(o, fail, current_perms, irods_user, "own", dir)
            ELSE o
        Grant(g) ==
            IF g.err THEN g
            ELSE LET current_perms == service_path_permissions(g.w, dir, listsInherit)
                 IN  Other(_set_permission_if_needed(
                               _set_permission_if_needed(g, fail, current_perms, "",
                                                         "inherit", dir),
                               fail, current_perms, username, "own", dir),
                           current_perms)
        Perms(p) ==
            Grant(Do(p, fail, "irods.path_permissions service",
                     IF service_path_exists(p.w, dir) THEN Read(p.w) ELSE Rejected(p.w)))
        Ready(e) ==
            IF e.err THEN e
            ELSE Perms(Do(e, fail, "irods.collections_create service",
                          IF service_path_exists(e.w, dir) THEN Ok(e.w)
                          ELSE service_collections_create(e.w, dir, recurse)))
    IN  Ready(ensure_user_exists(x, fail, username, autoHome))

\* DataStore.register_service.  An exception of ensure_user_exists is raised again
\* as another exception; current_perms is read once, after the collection is there.
register_service(x, fail, username, irods_path, irods_user, autoHome, recurse, listsInherit) ==
    LET dir == <<username, irods_path>>
        Other(o, current_perms) ==
            IF irods_user # NoIrodsUser
            THEN _set_permission_if_needed(o, fail, current_perms, irods_user, "own", dir)
            ELSE o
        Grant(g) ==
            IF g.err THEN g
            ELSE LET current_perms == service_path_permissions(g.w, dir, listsInherit)
                 IN  Other(_set_permission_if_needed(
                               _set_permission_if_needed(g, fail, current_perms, "",
                                                         "inherit", dir),
                               fail, current_perms, username, "own", dir),
                           current_perms)
        Perms(p) ==
            Grant(Do(p, fail, "irods.path_permissions service",
                     IF service_path_exists(p.w, dir) THEN Read(p.w) ELSE Rejected(p.w)))
        Created(c) ==
            IF c.err \/ service_path_exists(c.w, dir) THEN c
            ELSE Do(c, fail, "irods.collections_create service",
                    service_collections_create(c.w, dir, recurse))
        Ready(e) ==
            IF e.err THEN e
            ELSE Perms(Created(Do(e, fail, "irods.path_exists service", Read(e.w))))
    IN  Ready(ensure_user_exists(x, fail, username, autoHome))

\* The handler: register_service, any exception answered as HTTPException(500).
register_datastore_service(w, fail, request, autoHome, recurse, listsInherit) ==
    register_service(Start(w), fail, request.username, request.irods_path,
                     request.irods_user, autoHome, recurse, listsInherit)

\* The store's choices that make a difference: recurse when a collection is made
\* in a missing home, listsInherit when the flag is set.
RecurseChoices(request) ==
    IF irodsUsers[request.username].exists /\ ~irodsHomes[request.username].exists
    THEN BOOLEAN ELSE {TRUE}
ListsInheritChoices(request) ==
    IF irodsServices[<<request.username, request.irods_path>>] # NoEntry
    THEN BOOLEAN ELSE {FALSE}

RegisterService ==
    \E request \in RegistrationRequests, fail \in 0..MaxServiceFail :
      \E autoHome \in AutoHomeChoices(request.username),
         recurse \in RecurseChoices(request),
         listsInherit \in ListsInheritChoices(request) :
        LET r == register_datastore_service(ServiceWorld, fail, request, autoHome,
                                            recurse, listsInherit)
        IN  /\ fail <= r.n
            /\ irodsUsers' = r.w.iu
            /\ irodsHomes' = r.w.ih
            /\ irodsServices' = r.w.sv
            /\ last' = [op |-> "register_service", req |-> request, ok |-> ~r.err,
                        log |-> r.log, fail |-> fail,
                        after |-> After("register_service", request)]
            /\ reply' = Outcome(r)
            /\ UNCHANGED <<ldapUsers, ldapGroups, today, tokVars, raceVars, _formation_api,
                           _formation_app_id, _formation_app_name, analyses, app_params,
                           listing, lookup, api_config, served, members,
                           attr_value, decoded, portal_db, script>>

\* The object store as a create_datastore_user call left it, which may have failed
\* and left an account without its home; or empty.
ServiceInit ==
    /\ today = 0
    /\ ldapUsers = EmptyWorld.lu
    /\ ldapGroups = EmptyWorld.lg
    /\ \E request \in DatastoreRequests, fail \in 0..MaxFail, autoHome \in BOOLEAN,
          made \in BOOLEAN :
          LET r == create_datastore_user(EmptyWorld, fail, request, autoHome)
              w == IF made THEN r.w ELSE EmptyWorld
          IN  /\ fail <= r.n
              /\ irodsUsers = w.iu
              /\ irodsHomes = w.ih
    /\ last = NoCall
    /\ TokInit
    /\ JobInit(CHOOSE c \in FormationConfigs : ~c.api, << >>)
    /\ NoCalls
    /\ ExtIdle

\* ------------------------------------------------------------------------
\* Part VIII: portal_ldap.py, decode_ldap_int_attr
\* ------------------------------------------------------------------------

\* Characters (of a str) or bytes (of a bytes value) an attribute value has at most.
MaxChars == 3

\* The characters values are written with; xFF is a byte that is not UTF-8.
Chars == {"0", "1", "2", "-", ".", " "}
Bytes == Chars \cup {"xFF"}

Strs == UNION {[1..n -> Chars] : n \in 0..MaxChars}
ByteStrs == UNION {[1..n -> Bytes] : n \in 0..MaxChars}
AttrValues == [kind : {"str"}, chars : Strs] \cup [kind : {"bytes"}, chars : ByteStrs]

\* What attrs_dict.get(attr_name) may be: None (also for a missing attribute), a
\* list of values, a value that is not in a list.
AttrEntries ==
    {Missing}
      \cup {[kind |-> "list", values |-> << >>]}
      \cup {[kind |-> "list", values |-> <<v>>] : v \in AttrValues}
      \cup {[kind |-> "list", values |-> <<v, [kind |-> "str", chars |-> <<"2">>]>>] :
               v \in AttrValues}
      \cup AttrValues

\* bool(x) of Python
truthy(x) ==
    CASE x.kind = "None" -> FALSE
      [] x.kind = "list" -> x.values # << >>
      [] OTHER -> x.chars # << >>

\* bytes.decode('utf-8'): the text, or UnicodeDecodeError
decode(value) ==
    IF \E i \in 1..Len(value.chars) : value.chars[i] = "xFF"
    THEN [raised |-> "UnicodeDecodeError", chars |-> << >>]
    ELSE [raised |-> "none", chars |-> value.chars]

\* str.strip(), as int() applies it
strip(chars) ==
    LET inked == {i \in 1..Len(chars) : chars[i] # " "}
    IN  IF inked = {} THEN << >> ELSE SubSeq(chars, Min(inked), Max(inked))

Digits == {"0", "1", "2"}
digit(c) == CASE c = "0" -> 0 [] c = "1" -> 1 [] c = "2" -> 2

RECURSIVE digits_value(_)
digits_value(chars) ==
    IF chars = << >> THEN 0
    ELSE 10 * digits_value(SubSeq(chars, 1, Len(chars) - 1)) + digit(chars[Len(chars)])

\* int(text) of Python for a str: digits, optionally preceded by a sign and
\* surrounded by whitespace; ValueError otherwise.
int(chars) ==
    LET t == strip(chars)
        signed == t # << >> /\ t[1] = "-"
        body == IF signed THEN SubSeq(t, 2, Len(t)) ELSE t
    IN  IF body # << >> /\ \A i \in 1..Len(body) : body[i] \in Digits
        THEN [raised |-> "none", int |-> IF signed THEN 0 - digits_value(body)
                                        ELSE digits_value(body)]
        ELSE [raised |-> "ValueError", int |-> 0]

\* decode_ldap_int_attr on attrs_dict.get(attr_name): None for a falsy value; the
\* first value of a list; bytes decoded outside the try; int() inside it, its
\* ValueError and TypeError answered with None.
decode_ldap_int_attr(entry) ==
    LET value == IF entry.kind = "list" THEN entry.values[1] ELSE entry
        text == IF value.kind = "bytes" THEN decode(value)
                ELSE [raised |-> "none", chars |-> value.chars]
        parsed == int(text.chars)
    IN  IF ~truthy(entry) THEN [raised |-> "none", none |-> TRUE, int |-> 0]
        ELSE IF text.raised # "none" THEN [raised |-> text.raised, none |-> TRUE, int |-> 0]
        ELSE IF parsed.raised # "none" THEN [raised |-> "none", none |-> TRUE, int |-> 0]
        ELSE [raised |-> "none", none |-> FALSE, int |-> parsed.int]

DecodeIntAttr ==
    /\ decoded' = decode_ldap_int_attr(attr_value)
    /\ UNCHANGED <<provVars, today, tokVars, jobVars, raceVars, listing, lookup,
                   api_config, served, members, irodsServices, attr_value,
                   portal_db, script>>

DecodeInit ==
    /\ ProvInit
    /\ TokInit
    /\ JobInit(CHOOSE c \in FormationConfigs : ~c.api, << >>)
    /\ NoCalls
    /\ listing = << >>
    /\ lookup = NoLookup
    /\ api_config = DefaultConfig
    /\ served = NoRequest
    /\ members = {}
    /\ irodsServices = NoServices
    /\ attr_value \in AttrEntries
    /\ decoded = NotDecoded
    /\ portal_db = NoPortalDb
    /\ script = NoRun

\* ------------------------------------------------------------------------
\* Part IX: change_password calls running at the same time
\* ------------------------------------------------------------------------

\* A thread with no change_password request.  alone: no other call was running when
\* this one began.
IdlePasswordCall ==
    [pc |-> "idle", user |-> NoEntry, current_perms |-> {}, log |-> << >>, alone |-> TRUE]

\* A call of another caller is under way.
Running(c) == c.pc # "idle" /\ ~Ended(c)

\* Faulty variant of change_password_step: the object store is not written.
change_password_step_directory_only(w, c, dse) ==
    LET request == c.user
    IN  CASE c.pc = "ldap.change_password" ->
               Called(c, "ldap.change_password",
                      change_password(w, request.username, request.password),
                      "ldap.shadow_last_change")
          [] c.pc = "ldap.shadow_last_change" ->
               Called(c, "ldap.shadow_last_change",
                      shadow_last_change(w, dse, request.username),
                      "irods.change_password")
          [] c.pc = "irods.change_password" ->
               Called(c, "irods.change_password", Ok(w), "done")

\* One backend call of the handler change_password, made in the state w by the
\* caller c: the directory's password, its shadowLastChange, the store's password.
change_password_step(w, c, dse) ==
    LET request == c.user
    IN  CASE c.pc = "ldap.change_password" ->
               Called(c, "ldap.change_password",
                      change_password(w, request.username, request.password),
                      "ldap.shadow_last_change")
          [] c.pc = "ldap.shadow_last_change" ->
               Called(c, "ldap.shadow_last_change",
                      shadow_last_change(w, dse, request.username),
                      "irods.change_password")
          [] c.pc = "irods.change_password" ->
               Called(c, "irods.change_password",
                      ds_change_password(w, request.username, request.password), "done")

\* A request arrives and is handed to a thread of the pool.
BeginChangePassword(t) ==
    /\ calls[t].pc = "idle"
    /\ \E request \in PasswordRequests :
          calls' = [calls EXCEPT ![t] =
                       [@ EXCEPT !.pc = "ldap.change_password", !.user = request,
                                 !.alone = \A u \in Callers \ {t} : ~Running(calls[u])]]
    /\ UNCHANGED <<provVars, today, tokVars, jobVars, extVars>>

\* The caller t makes its next backend call, which the backend answers or which
\* fails on the way (failed).
ChangePasswordStep(t) ==
    /\ Running(calls[t])
    /\ \E failed \in BOOLEAN :
          LET s == IF failed
                   THEN Called(calls[t], calls[t].pc, Rejected(World), "raised")
                   ELSE change_password_step(World, calls[t], days_since_epoch)
          IN  /\ ldapUsers' = s.w.lu
              /\ ldapGroups' = s.w.lg
              /\ irodsUsers' = s.w.iu
              /\ irodsHomes' = s.w.ih
              /\ calls' = [calls EXCEPT ![t] = s.c]
    /\ UNCHANGED <<last, today, tokVars, jobVars, extVars>>

PasswordRaceNext == \E t \in Callers : BeginChangePassword(t) \/ ChangePasswordStep(t)

\* The user is provisioned; no call is under way.
PasswordRaceInit ==
    /\ today = 0
    /\ \E w \in {add_user(EmptyWorld, 0, ProvisionedBy, FALSE).w} :
          /\ ldapUsers = w.lu
          /\ ldapGroups = w.lg
          /\ irodsUsers = w.iu
          /\ irodsHomes = w.ih
    /\ last = NoCall
    /\ TokInit
    /\ JobInit(CHOOSE c \in FormationConfigs : ~c.api, << >>)
    /\ calls = [t \in Callers |-> IdlePasswordCall]
    /\ ExtIdle

\* ------------------------------------------------------------------------
\* Part X: scripts/delete-user.py, the deletion job
\* ------------------------------------------------------------------------

\* The calls one run can make: the query, one removal per subscription, four to the
\* object store, five to the directory, the connection, sixteen DELETEs, the commit.
MaxScriptFail == 29

EXIT_SUCCESS == 0
EXIT_DELETION_ERROR == 3

\* What json_agg gives for the user's addresses: none; an address on no list; an
\* address subscribed to a list.
PortalEmails ==
    {<< >>} \cup
    {<<[email |-> e, mailing_lists |-> ls]>> :
        e \in Emails, ls \in {<< >>} \cup {<<l>> : l \in ListNames}}

PortalUsers == {NoEntry} \cup {[exists |-> TRUE, id |-> 1, emails |-> es] : es \in PortalEmails}

\* The tables the script deletes the user's rows from, in its order.
PortalStatements ==
    <<"django_cyverse_auth_token", "django_admin_log",
      "warden_atmosphereinternationalrequest", "warden_atmospherestudentrequest",
      "api_workshopenrollmentrequestlog", "api_accessrequestlog",
      "account_passwordreset", "account_passwordresetrequest", "api_userservice",
      "api_formsubmission", "api_workshopenrollmentrequest", "api_accessrequest",
      "api_workshoporganizer", "api_emailaddressmailinglist", "account_emailaddress",
      "account_user">>

\* A run of the script so far: the directory and the object store (w), the mailing
\* lists (m), the portal database (db), the calls made (n, log), whether an
\* exception has left a phase (err).
StartScript(w, m, db) == [w |-> w, m |-> m, db |-> db, n |-> 0, err |-> FALSE, log |-> << >>]

\* The next call `name` of a run x to the portal database; after is the run once
\* the call has succeeded.
Attempt(x, fail, name, after) ==
    IF x.err THEN x
    ELSE IF x.n + 1 = fail
         THEN [x EXCEPT !.n = x.n + 1, !.err = TRUE, !.log = Append(x.log, name)]
         ELSE [after EXCEPT !.n = x.n + 1, !.log = Append(x.log, name)]

\* A call whose exception is caught and logged: the run goes on.
Caught(x, fail, name, after) ==
    IF x.err THEN x
    ELSE IF x.n + 1 = fail
         THEN [x EXCEPT !.n = x.n + 1, !.log = Append(x.log, name)]
         ELSE [after EXCEPT !.n = x.n + 1, !.log = Append(x.log, name)]

\* WHERE LOWER(u.username) = LOWER(%s); None when there is no row.
get_user_from_database(db, username) == db[username]

\* The inner loop of delete_user_from_mailing_lists: the lists of one address.
RECURSIVE remove_from_mailing_lists(_, _, _, _, _)
remove_from_mailing_lists(x, fail, email_addr, mailing_lists, dry_run) ==
    IF mailing_lists = << >> THEN x
    ELSE remove_from_mailing_lists(
             IF dry_run THEN x
             ELSE Caught(x, fail, "mailman.remove_member",
                         [x EXCEPT !.m = remove_member(x.m, Head(mailing_lists), email_addr)]),
             fail, email_addr, Tail(mailing_lists), dry_run)

RECURSIVE delete_user_from_mailing_lists(_, _, _, _)
delete_user_from_mailing_lists(x, fail, user_emails, dry_run) ==
    IF user_emails = << >> THEN x
    ELSE delete_user_from_mailing_lists(
             remove_from_mailing_lists(x, fail, Head(user_emails).email,
                                       Head(user_emails).mailing_lists, dry_run),
             fail, Tail(user_emails), dry_run)

\* cursor.execute of one DELETE inside the transaction.
execute(db, user_id, table) ==
    [u \in DOMAIN db |->
        IF ~db[u].exists \/ db[u].id # user_id THEN db[u]
        ELSE CASE table = "api_emailaddressmailinglist" ->
                    [db[u] EXCEPT !.emails =
                        [i \in DOMAIN @ |-> [@[i] EXCEPT !.mailing_lists = << >>]]]
               [] table = "account_emailaddress" -> [db[u] EXCEPT !.emails = << >>]
               [] table = "account_user" -> NoEntry
               [] OTHER -> db[u]]

RECURSIVE execute_all(_, _, _, _)
execute_all(x, fail, user_id, tables) ==
    IF tables = << >> THEN x
    ELSE execute_all(Attempt(x, fail, Head(tables),
                             [x EXCEPT !.db = execute(x.db, user_id, Head(tables))]),
                     fail, user_id, Tail(tables))

\* One transaction: connect, the DELETEs, commit; rolled back when a call fails.
\* With dry_run only the connection is made.
delete_user_from_portal_database(x, fail, user_id, dry_run) ==
    LET conn == Attempt(x, fail, "db.connect", x)
        done == execute_all(conn, fail, user_id, PortalStatements)
        t == IF dry_run THEN conn ELSE Attempt(done, fail, "db.commit", done)
    IN  IF t.err THEN [t EXCEPT !.db = x.db] ELSE t

\* Faulty variant of delete_user_from_datastore: dry_run is not looked at.
delete_user_from_datastore_ignoring_dry_run(x, fail, username, dry_run) ==
    _delete_user_from_datastore(x, fail, username)

delete_user_from_datastore(x, fail, username, dry_run) ==
    LET HomeGone(h) == Do(h, fail, "irods.delete_user", ds_delete_user(h.w, username))
        Lookup(x1) ==
            IF user_exists(x1.w, username) /\ ~dry_run
            THEN HomeGone(delete_home(x1, fail, username))
            ELSE x1
    IN  Lookup(Do(x, fail, "irods.user_exists", Read(x.w)))

delete_user_from_ldap(x, fail, username, dry_run) ==
    LET Removed(r) ==
            IF dry_run THEN r
            ELSE Do(r, fail, "ldap.delete_user", ldap_delete_user(r.w, username))
        Listed(g) ==
            LET InGroup(grp) == grp \in get_user_groups(g.w, username)
            IN  Removed(IF dry_run THEN g
                        ELSE remove_from_groups(g, fail, username,
                                                SelectSeq(GroupOrder, InGroup)))
        Lookup(x1) ==
            IF ~get_user(x1.w, username).exists THEN x1
            ELSE Listed(Do(x1, fail, "ldap.get_user_groups", Read(x1.w)))
    IN  Lookup(Do(x, fail, "ldap.get_user", Read(x.w)))

\* What delete_user returns, with the state the run leaves.
Returned(x, success) ==
    [w |-> x.w, m |-> x.m, db |-> x.db, err |-> x.err, log |-> x.log, success |-> success]

\* Faulty variant of delete_user_script: the portal database comes first.
delete_user_script_portal_first(w, m, db, fail, email_api, username, dry_run) ==
    LET queried == Attempt(StartScript(w, m, db), fail, "db.query", StartScript(w, m, db))
        user_info == get_user_from_database(db, username)
        portal == delete_user_from_portal_database(queried, fail, user_info.id, dry_run)
        lists == IF email_api /\ user_info.emails # << >>
                 THEN delete_user_from_mailing_lists(portal, fail, user_info.emails, dry_run)
                 ELSE portal
        store == delete_user_from_datastore(lists, fail, username, dry_run)
        directory == delete_user_from_ldap(store, fail, username, dry_run)
    IN  IF queried.err \/ ~user_info.exists THEN Returned(queried, FALSE)
        ELSE Returned(directory, ~directory.err)

\* delete_user of the script: phase 0 queries the portal database; then the mailing
\* lists, the object store, the directory and the portal database; any exception
\* that leaves a phase ends the run with False.
delete_user_script(w, m, db, fail, email_api, username, dry_run) ==
    LET queried == Attempt(StartScript(w, m, db), fail, "db.query", StartScript(w, m, db))
        user_info == get_user_from_database(db, username)
        lists == IF email_api /\ user_info.emails # << >>
                 THEN delete_user_from_mailing_lists(queried, fail, user_info.emails, dry_run)
                 ELSE queried
        store == delete_user_from_datastore(lists, fail, username, dry_run)
        directory == delete_user_from_ldap(store, fail, username, dry_run)
        portal == delete_user_from_portal_database(directory, fail, user_info.id, dry_run)
    IN  IF queried.err \/ ~user_info.exists THEN Returned(queried, FALSE)
        ELSE Returned(portal, ~portal.err)

\* main: the exit code for what delete_user returned.
main_exit(success) == IF success THEN EXIT_SUCCESS ELSE EXIT_DELETION_ERROR

\* One run of the script; email_api: mailman is enabled and its client was built.
DeleteUserScript ==
    \E username \in Usernames, dry_run \in BOOLEAN, email_api \in BOOLEAN,
       fail \in 0..MaxScriptFail :
        \E r \in {delete_user_script(World, members, portal_db, fail, email_api,
                                     username, dry_run)} :
            /\ ldapUsers' = r.w.lu
            /\ ldapGroups' = r.w.lg
            /\ irodsUsers' = r.w.iu
            /\ irodsHomes' = r.w.ih
            /\ members' = r.m
            /\ portal_db' = r.db
            /\ script' = [ran |-> TRUE, username |-> username, dry_run |-> dry_run,
                          email_api |-> email_api, success |-> r.success,
                          exit |-> main_exit(r.success), err |-> r.err, log |-> r.log]
            /\ UNCHANGED <<last, today, tokVars, jobVars, raceVars, listing, lookup,
                           api_config, served, irodsServices, attr_value, decoded>>

\* The user provisioned or not, subscribed or not, with or without a portal record.
ScriptInit ==
    /\ today = 0
    /\ \E w \in {EmptyWorld, add_user(EmptyWorld, 0, ProvisionedBy, FALSE).w} :
          /\ ldapUsers = w.lu
          /\ ldapGroups = w.lg
          /\ irodsUsers = w.iu
          /\ irodsHomes = w.ih
    /\ last = NoCall
    /\ TokInit
    /\ JobInit(CHOOSE c \in FormationConfigs : ~c.api, << >>)
    /\ NoCalls
    /\ listing = << >>
    /\ lookup = NoLookup
    /\ api_config = DefaultConfig
    /\ served = NoRequest
    /\ members \in SUBSET (ListNames \X Emails)
    /\ irodsServices = NoServices
    /\ attr_value = Missing
    /\ decoded = NotDecoded
    /\ portal_db \in [Usernames -> PortalUsers]
    /\ script = NoRun

Init ==
    /\ ProvInit
    /\ TokInit
    /\ JobInit(CHOOSE config \in FormationConfigs : ~config.api, << >>)
    /\ NoCalls
    /\ ExtIdle

Next == AddUser \/ CreateDatastoreUser \/ DeleteUser

\* The handlers of Part I
Spec == Init /\ [][Next]_vars

\* The token cache of Part II
SpecToken == Init /\ [][TokNext]_vars

\* Deletions handed to the job service
SpecAsync == AsyncInit /\ [][AsyncNext]_vars

\* The search for the username parameter, over the apps of the bounds
SpecParams == ParamInit /\ [][ResolveParameter]_vars

\* add_user calls interleaved at their backend calls
SpecRace == RaceInit /\ [][RaceNext]_vars

\* Lookups of an app by name, over the listings of the bounds
SpecApps == AppsInit /\ [][GetAppIdByName]_vars

\* Requests with and without credentials, to endpoints with and without AuthDep
SpecAuth == AuthInit /\ [][AuthNext]_vars

\* Service registrations, repeated and after failures
SpecServices == ServiceInit /\ [][RegisterService]_vars

\* An integer attribute decoded, over the attribute values of the bounds
SpecDecode == DecodeInit /\ [][DecodeIntAttr]_vars

\* Runs of the deletion script, dry and not, repeated and after failures
SpecScript == ScriptInit /\ [][DeleteUserScript]_vars

\* change_password calls interleaved at their backend calls
SpecPasswordRace == PasswordRaceInit /\ [][PasswordRaceNext]_vars

PasswordNext == AddUser \/ ChangePassword \/ NextDay

\* Accounts being provisioned and their passwords changed, over several days
SpecPassword == Init /\ [][PasswordNext]_vars

\* ------------------------------------------------------------------------
\* Properties of Part I (create_identity is add_user)
\* ------------------------------------------------------------------------

InLog(name, log) == \E i \in 1..Len(log) : log[i] = name

\* The calls of a run that completed: all of them, or all but the one that failed.
Completed(call) ==
    IF call.ok THEN call.log ELSE SubSeq(call.log, 1, Len(call.log) - 1)

ProvisioningCalls ==
    {"ldap.create_user", "ldap.add_user_to_group", "irods.create_user",
     "irods.collections_create", "irods.chmod"}

IsLdapCall(name) ==
    name \in {"ldap.get_user", "ldap.create_user", "ldap.change_password",
              "ldap.shadow_last_change", "ldap.get_user_groups", "ldap.add_user_to_group",
              "ldap.remove_user_from_group", "ldap.delete_user"}

HomeOwnedBy(username, who) ==
    irodsHomes[username].exists /\ owns(irodsHomes[username].acl, who)

FullyProvisioned(username) ==
    /\ ldapUsers[username].exists
    /\ username \in ldapGroups[ldap_everyone_group]
    /\ username \in ldapGroups[ldap_community_group]
    /\ irodsUsers[username].exists
    /\ HomeOwnedBy(username, ipcservices_user)
    /\ HomeOwnedBy(username, ds_admin_user)

\* C1: an add_user call that directly follows a successful add_user call with the
\* same payload, and meets no backend failure, succeeds, leaves the directory and
\* the object store exactly as they were, and issues no account-create, group-add,
\* home-create or ACL-grant call.
C1_SecondCallIsNoOp ==
    [][(last'.op = "add_user" /\ last'.after = "same_ok" /\ last'.fail = 0)
         => /\ last'.ok
            /\ World' = World
            /\ \A i \in 1..Len(last'.log) : last'.log[i] \notin ProvisioningCalls]_provVars

C1_Witness ==
    /\ last.op = "add_user" /\ last.after = "same_ok" /\ last.fail = 0 /\ last.ok
    /\ FullyProvisioned(last.req.username)
    /\ InLog("irods.change_password", last.log)

\* C6 (as claimed): an add_user call with a well-formed payload that directly follows
\* a failed add_user call with the same payload, and meets no backend failure itself,
\* succeeds and leaves the identity fully provisioned.
C6_RetryAfterFailureSucceeds ==
    (last.op = "add_user" /\ last.after = "same_failed" /\ last.fail = 0
        /\ validate_uid_number(last.req.user_uid))
      => (last.ok /\ FullyProvisioned(last.req.username))

\* C7 (as claimed): after every successful add_user call the home collection exists
\* and the user, ipcservices and the admin each hold "own" on it.
C7_OwnersAfterSuccess ==
    (last.op = "add_user" /\ last.ok)
      => /\ HomeOwnedBy(last.req.username, last.req.username)
         /\ HomeOwnedBy(last.req.username, ipcservices_user)
         /\ HomeOwnedBy(last.req.username, ds_admin_user)

\* C8: an add_user call in which a call fails ends at that call and reports the
\* error: the failed call is the last one made, a failed directory call means no
\* object-store call was made, and nothing the earlier calls did is undone (what
\* existed before the call still exists, and what the completed calls created
\* exists after it).
C8_FailureAbortsWithoutRollback ==
    [][(last'.op = "add_user" /\ (last'.fail > 0 \/ ~last'.ok))
         => LET u == last'.req.username
                done == Completed(last')
            IN  /\ ~last'.ok
                /\ Len(last'.log) >= 1
                /\ last'.fail > 0 => Len(last'.log) = last'.fail
                /\ IsLdapCall(last'.log[Len(last'.log)])
                     => \A i \in 1..Len(last'.log) : IsLdapCall(last'.log[i])
                /\ ldapUsers[u].exists => ldapUsers'[u] = ldapUsers[u]
                /\ \A g \in Groups : ldapGroups[g] \subseteq ldapGroups'[g]
                /\ irodsUsers[u].exists => irodsUsers'[u].exists
                /\ irodsHomes[u].exists
                     => irodsHomes'[u].exists /\ irodsHomes[u].acl \subseteq irodsHomes'[u].acl
                /\ InLog("ldap.create_user", done) => ldapUsers'[u].exists
                /\ InLog("ldap.add_user_to_group", done)
                     => \E g \in Groups : u \in ldapGroups'[g] \ ldapGroups[g]
                /\ InLog("irods.create_user", done) => irodsUsers'[u].exists
                /\ InLog("irods.collections_create", done) => irodsHomes'[u].exists
                /\ InLog("irods.change_password", done)
                     => irodsUsers'[u].password = last'.req.password]_provVars

C8_Witness ==
    /\ last.op = "add_user" /\ ~last.ok /\ last.fail > 0
    /\ InLog("ldap.create_user", Completed(last))
    /\ InLog("irods.create_user", Completed(last))
    /\ ldapUsers[last.req.username].exists
    /\ irodsUsers[last.req.username].exists
    /\ ~HomeOwnedBy(last.req.username, ds_admin_user)

\* C9: an add_user call made while the directory account exists leaves the account
\* entry, its password included, as it was, and issues neither the account-create
\* nor the directory password call.
C9_ExistingAccountUntouched ==
    [][(last'.op = "add_user" /\ ldapUsers[last'.req.username].exists)
         => /\ ldapUsers'[last'.req.username] = ldapUsers[last'.req.username]
            /\ ~InLog("ldap.create_user", last'.log)
            /\ ~InLog("ldap.change_password", last'.log)]_provVars

C9_Witness ==
    /\ last.op = "add_user" /\ last.ok
    /\ ldapUsers[last.req.username].exists
    /\ ldapUsers[last.req.username].userPassword # last.req.password
    /\ ldapUsers[last.req.username].attrs # last.req.attrs

\* C10: every successful add_user or create_datastore_user call has issued the
\* object-store password write and leaves the payload's password as the account's.
C10_PasswordAlwaysWritten ==
    (last.op \in {"add_user", "create_datastore_user"} /\ last.ok)
      => /\ InLog("irods.change_password", last.log)
         /\ irodsUsers[last.req.username].exists
         /\ irodsUsers[last.req.username].password = last.req.password

\* The account existed before the call (get_user is the branch taken then) and the
\* call is not a repetition of the one before it.
C10_Witness ==
    /\ last.op = "create_datastore_user" /\ last.ok /\ last.after = "other"
    /\ InLog("irods.get_user", last.log)
    /\ irodsUsers[last.req.username].password = last.req.password

\* C11: an add_user call with a valid uid that finds the directory and the object
\* store empty and meets no backend failure succeeds and ends with the directory
\* account and the object-store account present, the home collection present with
\* the user, ipcservices and the admin holding "own", and the user a member of both
\* configured groups.
C11_ProvisionFromEmpty ==
    [][(last'.op = "add_user" /\ last'.fail = 0 /\ World = EmptyWorld
          /\ validate_uid_number(last'.req.user_uid))
         => LET u == last'.req.username
                acl == path_permissions(World', u)
            IN  /\ last'.ok
                /\ ldapUsers'[u].exists
                /\ ldapUsers'[u].uidNumber = last'.req.user_uid
                /\ \A g \in Groups : u \in ldapGroups'[g]
                /\ irodsUsers'[u].exists
                /\ irodsHomes'[u].exists
                /\ owns(acl, u) /\ owns(acl, ipcservices_user) /\ owns(acl, ds_admin_user)]_provVars

\* The store did not make the home collection itself: the handler created it.
C11_Witness ==
    /\ last.op = "add_user" /\ last.ok /\ last.after = "other"
    /\ InLog("ldap.create_user", last.log)
    /\ InLog("irods.create_user", last.log)
    /\ InLog("irods.collections_create", last.log)
    /\ FullyProvisioned(last.req.username)
    /\ HomeOwnedBy(last.req.username, last.req.username)

StoreDeletions == {"irods.collections_remove", "irods.delete_user"}
DirectoryDeletions == {"ldap.remove_user_from_group", "ldap.delete_user"}

\* C12: a delete_user call makes no mutating object-store call and changes nothing
\* in the store when the user is absent from the store, makes no mutating directory
\* call and changes nothing in the directory when the user is absent from the
\* directory; with no backend failure the branch of one backend runs whether or not
\* the user is present in the other, and on a user absent from both the call
\* succeeds and changes nothing.
C12_SkipIfAbsentPerBackend ==
    [][last'.op = "delete_user"
         => LET u == last'.req.username
                log == last'.log
            IN  /\ ~irodsUsers[u].exists
                     => /\ \A i \in 1..Len(log) : log[i] \notin StoreDeletions
                        /\ irodsUsers' = irodsUsers /\ irodsHomes' = irodsHomes
                /\ ~ldapUsers[u].exists
                     => /\ \A i \in 1..Len(log) : log[i] \notin DirectoryDeletions
                        /\ ldapUsers' = ldapUsers /\ ldapGroups' = ldapGroups
                /\ (last'.fail = 0 /\ ldapUsers[u].exists)
                     => /\ last'.ok
                        /\ InLog("ldap.delete_user", log)
                        /\ ~ldapUsers'[u].exists
                /\ (last'.fail = 0 /\ irodsUsers[u].exists)
                     => /\ last'.ok
                        /\ InLog("irods.delete_user", log)
                        /\ ~irodsUsers'[u].exists
                /\ (last'.fail = 0 /\ ~irodsUsers[u].exists /\ ~ldapUsers[u].exists)
                     => /\ last'.ok
                        /\ World' = World
                        /\ log = <<"irods.user_exists", "ldap.get_user">>]_provVars

\* The user was absent from the object store and present in the directory.
C12_Witness ==
    /\ last.op = "delete_user" /\ last.ok /\ last.after = "other"
    /\ InLog("ldap.delete_user", last.log)
    /\ \A i \in 1..Len(last.log) : last.log[i] \notin StoreDeletions

\* The positions of a call in a log.
Positions(name, log) == {i \in 1..Len(log) : log[i] = name}

\* C13: in a delete_user call the removal of the home collection comes before the
\* deletion of the object-store account, which is issued only with the home
\* collection gone; every removal from a group comes before the deletion of the
\* directory account, which is issued only with no membership left; and when a call
\* that precedes the deletion of an account fails, that deletion is not issued and
\* the account stays.
C13_DeletionOrder ==
    [][last'.op = "delete_user"
         => LET u == last'.req.username
                log == last'.log
            IN  /\ \A i \in Positions("irods.delete_user", log) :
                      /\ \A j \in Positions("irods.collections_remove", log) : j < i
                      /\ \E j \in Positions("irods.collections_exists", log) : j < i
                      /\ irodsHomes[u].exists
                           => \E j \in Positions("irods.collections_remove", log) : j < i
                      /\ ~irodsHomes'[u].exists
                /\ \A i \in Positions("ldap.delete_user", log) :
                      /\ \A j \in Positions("ldap.remove_user_from_group", log) : j < i
                      /\ Cardinality(Positions("ldap.remove_user_from_group", log))
                           = Cardinality({g \in Groups : u \in ldapGroups[g]})
                      /\ \A g \in Groups : u \notin ldapGroups'[g]
                /\ last'.fail > 0 => (~last'.ok /\ Len(log) = last'.fail)
                /\ (~last'.ok /\ log[Len(log)] \in {"irods.user_exists",
                         "irods.collections_exists", "irods.collections_remove"})
                     => /\ ~InLog("irods.delete_user", log)
                        /\ irodsUsers'[u] = irodsUsers[u]
                /\ (~last'.ok /\ log[Len(log)] \in {"ldap.get_user",
                         "ldap.get_user_groups", "ldap.remove_user_from_group"})
                     => /\ ~InLog("ldap.delete_user", log)
                        /\ ldapUsers'[u] = ldapUsers[u]
                /\ (~last'.ok /\ ~IsLdapCall(log[Len(log)]))
                     => /\ ldapUsers' = ldapUsers /\ ldapGroups' = ldapGroups
                        /\ \A i \in 1..Len(log) : ~IsLdapCall(log[i])]_provVars

C13_Witness ==
    /\ last.op = "delete_user" /\ last.ok
    /\ Positions("irods.collections_remove", last.log) # {}
    /\ Positions("irods.delete_user", last.log) # {}
    /\ Cardinality(Positions("ldap.remove_user_from_group", last.log)) = 2
    /\ Positions("ldap.delete_user", last.log) # {}

Absent(username) ==
    /\ ~irodsUsers[username].exists
    /\ ~irodsHomes[username].exists
    /\ ~ldapUsers[username].exists
    /\ \A g \in Groups : username \notin ldapGroups[g]

\* C14: a delete_user call that directly follows a failed delete_user call for the
\* same username, and meets no backend failure itself, succeeds and leaves no
\* object-store account, no home collection, no directory account and no group
\* membership of the user.
C14_DeleteRetrySucceeds ==
    (last.op = "delete_user" /\ last.after = "same_failed" /\ last.fail = 0)
      => (last.ok /\ Absent(last.req.username))

\* The failed call had removed the home collection and not the account; the retry
\* deleted the account and went on to the directory.
C14_Witness ==
    /\ last.op = "delete_user" /\ last.after = "same_failed" /\ last.fail = 0 /\ last.ok
    /\ InLog("irods.delete_user", last.log)
    /\ ~InLog("irods.collections_remove", last.log)
    /\ InLog("ldap.delete_user", last.log)
    /\ Absent(last.req.username)

\* C15: a successful change_password call that directly follows a successful
\* change_password call for the same username with another password leaves its own
\* password, not the earlier one, as the directory account's and the object-store
\* account's.
C15_SecondPasswordInEffect ==
    [][(last'.op = "change_password" /\ last'.after = "same_user_ok" /\ last'.ok)
         => LET u == last'.req.username
            IN  /\ last.req.password # last'.req.password
                /\ ldapUsers[u].userPassword = last.req.password
                /\ irodsUsers[u].password = last.req.password
                /\ ldapUsers'[u].userPassword = last'.req.password
                /\ irodsUsers'[u].password = last'.req.password]_provVars

C15_Witness ==
    /\ last.op = "change_password" /\ last.after = "same_user_ok" /\ last.ok
    /\ ldapUsers[last.req.username].userPassword = last.req.password
    /\ irodsUsers[last.req.username].password = last.req.password

PasswordWrites == <<"ldap.change_password", "ldap.shadow_last_change", "irods.change_password">>

\* C16: a change_password call issues the directory password write, the
\* shadowLastChange update and the object-store password write in this order; the
\* update sets the current day count, which is not negative; when a write fails the
\* writes before it stay in effect, the writes after it are not issued and change
\* nothing, and the call reports the error.
C16_WritesInOrderNoRollback ==
    [][last'.op = "change_password"
         => LET u == last'.req.username
                log == last'.log
                done == Completed(last')
            IN  /\ Len(log) \in 1..3
                /\ log = SubSeq(PasswordWrites, 1, Len(log))
                /\ last'.ok <=> Len(done) = 3
                /\ last'.fail > 0 => (~last'.ok /\ Len(log) = last'.fail)
                /\ Len(done) >= 1 => ldapUsers'[u].userPassword = last'.req.password
                /\ Len(done) >= 2
                     => /\ ldapUsers'[u].shadowLastChange = today
                        /\ ldapUsers'[u].shadowLastChange >= 0
                /\ Len(done) = 3 => irodsUsers'[u].password = last'.req.password
                /\ Len(done) = 0 => ldapUsers' = ldapUsers
                /\ (Len(done) = 1 /\ ldapUsers[u].exists)
                     => ldapUsers'[u].shadowLastChange = ldapUsers[u].shadowLastChange
                /\ Len(done) < 3 => irodsUsers' = irodsUsers
                /\ ldapGroups' = ldapGroups /\ irodsHomes' = irodsHomes]_provVars

\* The object-store write failed after both directory writes: the directory has the
\* new password and today's day count, the object store the old password.
C16_Witness ==
    /\ last.op = "change_password" /\ ~last.ok
    /\ Len(last.log) = 3
    /\ ldapUsers[last.req.username].userPassword = last.req.password
    /\ ldapUsers[last.req.username].shadowLastChange = today
    /\ today > 0
    /\ irodsUsers[last.req.username].exists
    /\ irodsUsers[last.req.username].password # last.req.password

\* ------------------------------------------------------------------------
\* Properties of Part II
\* ------------------------------------------------------------------------

\* Every thread has called and every call has ended.
BurstOver == \A t \in Threads : Finished(t)

\* All threads called before any refresh request left, with a token cached that
\* was past expiry minus the margin for each of them, and every refresh answer
\* was a 2xx with a well-formed token.
ConcurrentExpiredCalls ==
    /\ burst.cached # NoToken
    /\ burst.clean
    /\ \A t \in Threads : burst.th[t].early /\ burst.th[t].slow

\* One request, and every caller went on with the token it brought.
OneRefreshForAll ==
    /\ burst.requests = 1
    /\ token # burst.cached
    /\ \A t \in Threads : burst.th[t].outcome = "returned" /\ burst.th[t].seen = token

\* C2 as stated: when all callers call concurrently past expiry minus the margin of
\* the cached token and refreshing succeeds, exactly one refresh request is sent
\* and every caller returns with the refreshed token.
C2_OneRefreshPerBurst ==
    (BurstOver /\ ConcurrentExpiredCalls) => OneRefreshForAll

\* The refreshed token's decoded expiry lies beyond the entry time of every caller by
\* more than the margin.
FreshForEveryCaller ==
    \A t \in Threads : current_time[t] < burst.first_expiry - refresh_buffer

\* C2, amended: when all callers call concurrently past expiry minus the margin of
\* the cached token, refreshing succeeds and the refreshed token's expiry exceeds
\* every caller's entry time plus the margin, exactly one refresh request is sent and
\* every caller returns with the refreshed token.
C2_OneRefreshWhenFresh ==
    (BurstOver /\ ConcurrentExpiredCalls /\ FreshForEveryCaller) => OneRefreshForAll

C2_Witness ==
    BurstOver /\ ConcurrentExpiredCalls /\ FreshForEveryCaller /\ OneRefreshForAll

InFlight(t) == pc[t] \in {"inflight", "answered", "decode"}

\* C3: at every instant at most one thread is inside a token refresh (request sent,
\* answer not yet fully handled), whatever earlier refreshes did.
C3_OneRefreshInFlight ==
    Cardinality({t \in Threads : InFlight(t)}) <= 1

C3_Witness ==
    \E t \in Threads, u \in Threads :
        /\ pc[t] = "inflight"
        /\ pc[u] = "acquire"
        /\ issued > 1

\* C4: when the token endpoint answers with a non-2xx status, the refreshing call
\* ends with HTTPStatusError and the cached token and expiry are what they were when
\* the request was sent.
C4_FailedRefreshKeepsCache ==
    [][\A t \in Threads :
          (pc[t] = "answered" /\ response[t].status = "non2xx" /\ pc'[t] # "answered")
            => /\ pc'[t] = "raised"
               /\ burst'.th[t].outcome = "HTTPStatusError"
               /\ token' = burst.th[t].attempt.token
               /\ token_expiry' = burst.th[t].attempt.token_expiry]_vars

C4_Witness ==
    \E t \in Threads :
        /\ pc[t] = "raised"
        /\ burst.th[t].outcome = "HTTPStatusError"
        /\ burst.th[t].attempt.token # NoToken
        /\ token = burst.th[t].attempt.token
        /\ token_expiry = burst.th[t].attempt.token_expiry

\* C5 as stated: when the token endpoint answers 2xx with an access token whose
\* expiry cannot be decoded, the refreshing call ends with an error and the cached
\* token and expiry are what they were when the request was sent.
C5_MalformedTokenRaises ==
    [][\A t \in Threads :
          (/\ pc[t] \in {"answered", "decode"}
           /\ response[t].has_token
           /\ response[t].access_token.payload # "exp"
           /\ pc'[t] \notin {"answered", "decode"})
            => /\ pc'[t] = "raised"
               /\ token' = burst.th[t].attempt.token
               /\ token_expiry' = burst.th[t].attempt.token_expiry]_vars

\* C17: a call that finds a token cached and read a time before expiry minus the
\* margin returns without sending a request and leaves token and expiry as they
\* were; a call that finds no token, or read a time at expiry minus the margin or
\* later, takes the slow path.
C17_FastPathBoundary ==
    [][\A t \in Threads :
          /\ (pc[t] = "fast" /\ pc'[t] # "fast")
               => IF token # NoToken /\ current_time[t] < token_expiry - refresh_buffer
                  THEN /\ pc'[t] = "return"
                       /\ ~burst'.th[t].slow
                       /\ UNCHANGED <<token, token_expiry, issued, lock>>
                  ELSE /\ pc'[t] = "acquire"
                       /\ burst'.th[t].slow
          /\ (pc[t] = "return" /\ ~burst.th[t].slow /\ pc'[t] # "return")
               => /\ pc'[t] = "done"
                  /\ burst'.th[t].attempt = NoAttempt
                  /\ burst'.th[t].seen = token
                  /\ UNCHANGED <<token, token_expiry, issued>>]_vars

\* One call returned on the fast path; another, made exactly at expiry minus the
\* margin of the same token, is on the slow path.
C17_Witness ==
    \E t \in Threads, u \in Threads :
        /\ pc[t] = "done" /\ ~burst.th[t].slow /\ burst.th[t].seen = token
        /\ pc[u] = "acquire"
        /\ token # NoToken
        /\ current_time[u] = token_expiry - refresh_buffer

AuthErrors == {"HTTPStatusError", "KeyError"}

\* C18 as stated: a call that was waiting for the lock when another call's refresh
\* failed ends with the error too.
C18_FailureReachesWaiters ==
    \A u \in Threads :
        (burst.th[u].waited /\ Finished(u)) => burst.th[u].outcome \in AuthErrors

\* The rule of the cache, for the time the call of t read on entry: a token is
\* there and the time is before its expiry minus the margin.
ValidFor(t) == token # NoToken /\ StillValid(t)

\* C35: whenever get_token returns normally the cache holds a non-empty token with
\* now < expiry - safety_margin for the time the call read, so that no request is
\* sent to the job service with a token the cache's own rule treats as expired.
C35_ValidOnReturn ==
    \A t \in Threads : pc[t] = "return" => ValidFor(t)

\* The cached expiry is the one decoded from the cached token.
Wholesale == token_expiry = _decode_token_expiry(token)

\* C36: the credential is replaced wholesale: a thread that reads the token and its
\* expiry in get_token (the test of the fast path), while another thread refreshes,
\* never reads the token string of one refresh with the expiry of another.
C36_NoTornRead ==
    [][\A t \in Threads : pc[t] = "fast" /\ pc'[t] # "fast" => Wholesale]_vars

\* ------------------------------------------------------------------------
\* Properties of Part III (delete_identity_async is delete_user_async)
\* ------------------------------------------------------------------------

FormationCalls ==
    {"formation._refresh_token", "formation.search_apps", "formation.get_app_parameters",
     "formation.launch_analysis", "formation.get_analysis_status"}

\* A step is a call of the job handler op: the handler's record of the last call
\* names op, and the step is not one of the execution backend, which leaves that
\* record and the reply alone.
Handled(op) == last'.op = op /\ <<last, reply>>' # <<last, reply>>

\* The requests of a run to the job service itself, in order.
IsServiceRequest(name) == name # "formation._refresh_token"
ServiceRequests(log) == SelectSeq(log, IsServiceRequest)

\* C19: a delete_user_async call, however it ends, leaves the directory and the
\* object store as they were and issues calls to the job service only (no directory,
\* object-store or mailing-list call).
C19_NoLocalDeletion ==
    [][last'.op = "delete_user_async"
         => /\ World' = World
            /\ \A i \in 1..Len(last'.log) : last'.log[i] \in FormationCalls]_vars

\* The job was submitted for a user who is still in the directory and the store.
C19_Witness ==
    /\ last.op = "delete_user_async" /\ last.ok
    /\ InLog("formation.launch_analysis", last.log)
    /\ last.req.username \in Usernames
    /\ ldapUsers[last.req.username].exists
    /\ irodsUsers[last.req.username].exists
    /\ irodsHomes[last.req.username].exists
    /\ \E i \in 1..Len(analyses) :
          analyses[i].submission.config = {<<"step1_username", last.req.username>>}

Lookups(log) == Cardinality(Positions("formation.search_apps", log))

\* C20: a delete_user_async call made with no app id cached and an app name
\* configured performs exactly one by-name lookup and, when the lookup returns an
\* id, caches it and uses it; a call made with an app id cached performs no lookup,
\* uses the cached id and leaves it cached; a cached id is never dropped, so every
\* call after a successful lookup performs no lookup, whatever its username.
C20_LookupOnceThenCached ==
    [][/\ _formation_app_id # NoAppId => _formation_app_id' = _formation_app_id
       /\ Handled("delete_user_async")
            => LET log == ServiceRequests(last'.log)
               IN  /\ (_formation_app_id = NoAppId /\ _formation_api
                         /\ _formation_app_name # "")
                        => /\ Lookups(log) <= 1
                           /\ Lookups(log) = 0 => (log = << >> /\ ~last'.ok)
                           /\ Lookups(log) = 1 => log[1] = "formation.search_apps"
                           /\ Len(log) > 1 => _formation_app_id' \in AppIds
                   /\ _formation_app_id # NoAppId => Lookups(log) = 0
                   /\ Len(analyses') > Len(analyses)
                        => /\ _formation_app_id' # NoAppId
                           /\ analyses'[Len(analyses')].app_id = _formation_app_id']_vars

\* Two deletions for different usernames: the first looked the app up, the second
\* did not, and both jobs were submitted for the id the lookup returned.
C20_Witness ==
    /\ _formation_app_name # ""
    /\ last.op = "delete_user_async" /\ last.ok /\ last.after = "other"
    /\ Lookups(last.log) = 0
    /\ Len(analyses) = 2
    /\ analyses[1].submission.name[2] # analyses[2].submission.name[2]
    /\ analyses[1].app_id = _formation_app_id
    /\ analyses[2].app_id = _formation_app_id

\* The error kinds as the caller receives them: the handlers raise HTTPException
\* with status 500 for a configuration error and 503 for a backend not configured.
ConfigurationError(r) == r.error.type = "HTTPException" /\ r.status_code = 500
ServiceUnavailable(r) == r.error.type = "HTTPException" /\ r.status_code = 503

\* The lookup of a run was answered (it is not the request chosen to fail).
LookupAnswered(log, fail) ==
    \E i \in Positions("formation.search_apps", log) : i # fail

\* C21: a delete_user_async call made with a Formation client and no app id
\* cached, for which no app name is configured or the by-name lookup is answered
\* and finds no app, fails with the configuration error (500), leaves the cached app
\* id empty, fetches no parameters and submits no job; without an app name it sends
\* nothing at all.
C21_NoAppNoJob ==
    [][(Handled("delete_user_async") /\ _formation_api /\ _formation_app_id = NoAppId)
         => LET log == last'.log
                NoApp == /\ ~last'.ok
                         /\ ConfigurationError(reply')
                         /\ reply'.error.detail = "app ID not configured"
                         /\ _formation_app_id' = NoAppId
                         /\ ~InLog("formation.get_app_parameters", log)
                         /\ ~InLog("formation.launch_analysis", log)
                         /\ analyses' = analyses
            IN  /\ _formation_app_name = "" => (NoApp /\ log = << >>)
                /\ (LookupAnswered(log, last'.fail) /\ _formation_app_id' = NoAppId)
                     => NoApp]_vars

\* A lookup that was answered and found no app.
C21_Witness ==
    /\ last.op = "delete_user_async" /\ ~last.ok
    /\ _formation_app_name # "" /\ _formation_app_id = NoAppId
    /\ last.fail = 0
    /\ last.log = <<"formation._refresh_token", "formation.search_apps">>
    /\ ConfigurationError(reply)
    /\ analyses = << >>

JobHandlers == {"delete_user_async", "get_deletion_status"}

\* C22: with no Formation client configured, delete_user_async and
\* get_deletion_status fail with 503 (service unavailable) without a single request:
\* no app lookup, no parameter fetch, no token refresh, no submission and no status
\* request; the cached app id and the analyses of the service are unchanged.
C22_NotConfigured ==
    [][\A op \in JobHandlers :
         (Handled(op) /\ ~_formation_api)
            => /\ ~last'.ok
               /\ ServiceUnavailable(reply')
               /\ last'.log = << >>
               /\ _formation_app_id' = _formation_app_id
               /\ analyses' = analyses]_vars

\* A status request and no Formation client.
C22_Witness ==
    /\ ~_formation_api
    /\ _formation_app_name # ""
    /\ last.op = "get_deletion_status" /\ ~last.ok
    /\ ServiceUnavailable(reply)
    /\ last.log = << >>

\* The parameters of the app, over all its groups.
AppParameters ==
    {app_params[g][i] : <<g, i>> \in {gi \in (1..MaxGroups) \X (1..MaxParams) :
                                         /\ gi[1] <= Len(app_params)
                                         /\ gi[2] <= Len(app_params[gi[1]])}}

\* The parameter ids under which submitted jobs were given the username.
UsernameKeys ==
    {kv[1] : kv \in UNION {analyses[i].submission.config : i \in 1..Len(analyses)}}

\* C23 as stated: whenever some parameter of the app has a label containing
\* "username" or "user name", the id the deletion request resolves (the key of the
\* submitted config) is the id of a parameter with such a label.
C23_LabelMatchWins ==
    (last.op = "delete_user_async" /\ \E param \in AppParameters : label_matches(param))
        => /\ last.ok
           /\ UsernameKeys # {}
           /\ \A id \in UsernameKeys :
                 \E param \in AppParameters : param.id = id /\ label_matches(param)

\* The positions <<group, index>> of the app's parameters and their order.
ParamPositions ==
    {gi \in (1..MaxGroups) \X (1..MaxParams) :
        gi[1] <= Len(app_params) /\ gi[2] <= Len(app_params[gi[1]])}
ParamAt(gi) == app_params[gi[1]][gi[2]]
Precedes(p, q) == p[1] < q[1] \/ (p[1] = q[1] /\ p[2] <= q[2])

\* C24 as stated: when no label of the app's parameters matches, the id the
\* deletion request resolves is that of the first visible, required, positional
\* text parameter without a default value; when there is none, that of the last
\* visible and required parameter of a group; when no parameter qualifies the
\* request fails with the configuration error (500) and no job is submitted.
C24_FallbackOrder ==
    (last.op = "delete_user_async" /\ \A param \in AppParameters : ~label_matches(param))
        => LET texts == {p \in ParamPositions : positional_text(ParamAt(p))}
               others == {p \in ParamPositions : visible_required(ParamAt(p))}
           IN  /\ texts # {}
                    => /\ last.ok
                       /\ \E p \in texts :
                             /\ \A q \in texts : Precedes(p, q)
                             /\ UsernameKeys = {ParamAt(p).id}
               /\ (texts = {} /\ others # {})
                    => /\ last.ok
                       /\ \E p \in others :
                             /\ \A q \in others : q[1] = p[1] => Precedes(q, p)
                             /\ UsernameKeys = {ParamAt(p).id}
               /\ others = {}
                    => /\ ~last.ok
                       /\ ConfigurationError(reply)
                       /\ analyses = << >>

\* C25: the job a delete_user_async call submits is named
\* user-deletion-<username>-<time.time() as an integer> and its config has exactly
\* one entry, from the id of a parameter of the app to the username; the call
\* returns the username, the analysis id the service answered with and the status
\* the service gave the new analysis ("Submitted" or "Running").  A call that fails
\* returns none of this and a call submits at most one job.
C25_Submission ==
    [][Handled("delete_user_async")
         => LET username == last'.req.username
                id == Len(analyses')
            IN  /\ last'.ok <=> Len(analyses') = Len(analyses) + 1
                /\ ~last'.ok => (analyses' = analyses /\ reply'.body = NoBody)
                /\ last'.ok
                     => /\ SubSeq(analyses', 1, Len(analyses)) = analyses
                        /\ analyses'[id].submission.name = <<"user-deletion", username, now>>
                        /\ \E param \in AppParameters :
                              analyses'[id].submission.config = {<<param.id, username>>}
                        /\ reply'.status_code = 200
                        /\ reply'.body.user = username
                        /\ reply'.body.analysis_id = id
                        /\ reply'.body.status = analyses'[id].status
                        /\ reply'.body.status \in {"Submitted", "Running"}]_vars

\* A second job, for another user, which the service reported as running.
C25_Witness ==
    /\ last.op = "delete_user_async" /\ last.ok
    /\ Len(analyses) = 2
    /\ analyses[1].submission.name[2] = "jdoe"
    /\ analyses[2].submission.name[2] = "asmith"
    /\ analyses[2].submission.config = {<<"step1_username", "asmith">>}
    /\ reply.body = [user |-> "asmith", analysis_id |-> 2, status |-> "Running"]

\* The status request of a run was answered with a non-2xx status.
StatusRequestRejected(r) ==
    /\ r.error.type = "HTTPStatusError"
    /\ r.error.detail = "formation.get_analysis_status"

\* C26 as stated: when the job service answers the status request with 404 (it does
\* not know the id) the caller of get_deletion_status receives a not-found outcome
\* (404), and receives another outcome when the service answers with another error
\* status.
C26_UnknownJobNotFound ==
    [][(Handled("get_deletion_status") /\ StatusRequestRejected(reply'))
         => (reply'.status_code = 404 <=> reply'.error.status_code = 404)]_vars

\* C27: every get_deletion_status call made with a Formation client sends one
\* status request to the job service (or fails at the token refresh before it),
\* changes nothing at the service, and when it succeeds returns the id asked for
\* with the status the service holds for it at that moment; so the status returned
\* is "Completed" only when the execution backend has completed the analysis.
C27_StatusFromService ==
    [][(Handled("get_deletion_status") /\ _formation_api)
         => LET log == last'.log
                id == last'.req.analysis_id
            IN  /\ analyses' = analyses
                /\ \/ Cardinality(Positions("formation.get_analysis_status", log)) = 1
                   \/ /\ ~last'.ok
                      /\ log = <<"formation._refresh_token">>
                      /\ last'.fail = 1
                /\ last'.ok
                     => /\ id \in 1..Len(analyses)
                        /\ reply'.body.analysis_id = id
                        /\ reply'.body.status = analyses[id].status
                /\ reply'.body.status = "Completed"
                     => (last'.ok /\ analyses[id].status = "Completed")]_vars

\* The same analysis asked about again, still running.
C27_Witness ==
    /\ last.op = "get_deletion_status" /\ last.ok /\ last.after = "same_ok"
    /\ reply.body.status = "Running"
    /\ analyses[last.req.analysis_id].status = "Running"

Fetches(log) == Cardinality(Positions("formation.get_app_parameters", log))

\* A job was submitted to the app before: its username parameter was resolved.
ResolvedBefore(app_id) == \E i \in 1..Len(analyses) : analyses[i].app_id = app_id

\* C28 as stated: a delete_user_async call that uses an app id for which the
\* username parameter was resolved before does not fetch the app's parameters.
C28_ParamIdResolvedOnce ==
    [][(Handled("delete_user_async") /\ _formation_app_id' # NoAppId
          /\ ResolvedBefore(_formation_app_id'))
         => Fetches(last'.log) = 0]_vars

\* C28, amended: the username parameter id is resolved for each request.  Every
\* delete_user_async call that has an app id (cached or just looked up) fetches the
\* app's parameters exactly once, unless the token refresh before the fetch fails,
\* also when an earlier call resolved the parameter for the same app id; a call
\* without an app id fetches nothing.
C28_ParamIdResolvedPerCall ==
    [][(Handled("delete_user_async") /\ _formation_api)
         => LET log == last'.log
            IN  /\ _formation_app_id' = NoAppId => Fetches(log) = 0
                /\ _formation_app_id' # NoAppId
                     => \/ Fetches(log) = 1
                        \/ /\ ~last'.ok
                           /\ Fetches(log) = 0
                           /\ log[Len(log)] = "formation._refresh_token"
                           /\ last'.fail = Len(log)]_vars

\* A second job submitted to the same app: the parameters were fetched again.
C28_Witness ==
    /\ last.op = "delete_user_async" /\ last.ok
    /\ Len(analyses) = 2
    /\ analyses[1].app_id = analyses[2].app_id
    /\ last.log = <<"formation.get_app_parameters", "formation.launch_analysis">>

\* C30 as stated, for the job handlers: when a request of the Formation client
\* fails (the token refresh: an authentication error; a request to the job service:
\* an upstream error), the caller receives that error, raised by that request, and
\* not an error of another kind.
C30_ClientErrorsSurface ==
    [][\A op \in JobHandlers :
         (Handled(op) /\ last'.fail > 0)
            => /\ ~last'.ok
               /\ reply'.error.type = "HTTPStatusError"
               /\ reply'.error.detail =
                     (IF last'.log[last'.fail] = "formation._refresh_token"
                      THEN "_refresh_token" ELSE last'.log[last'.fail])]_vars

\* ------------------------------------------------------------------------
\* Properties of Part IV (create_identity is add_user)
\* ------------------------------------------------------------------------

Creates == {"ldap.create_user", "irods.create_user"}

\* The caller t has made the call `name`; the backend accepted it.
Issued(t, name) == \E i \in 1..Len(calls[t].log) : calls[t].log[i].call = name
Accepted(t, name) ==
    \E i \in 1..Len(calls[t].log) : calls[t].log[i] = [call |-> name, ok |-> TRUE]

\* The account the create `name` of the request `user` makes is there as that
\* request described it.
AccountOf(name, user) ==
    IF name = "ldap.create_user"
    THEN /\ ldapUsers[user.username].exists
         /\ ldapUsers[user.username].attrs = user.attrs
         /\ ldapUsers[user.username].uidNumber = user.user_uid
    ELSE irodsUsers[user.username].exists

\* C29: whenever two add_user calls for the same username have both found the
\* account absent and both issued its creation (in the directory, or in the
\* object store), the backing system has accepted exactly one of the two creates;
\* the other call ended with the backend's rejection of its create as its last
\* step, and the one account that exists is the one the accepted create made.
C29_CreateRace ==
    \A name \in Creates :
        (\A t \in Callers : Issued(t, name))
            => \E winner \in Callers :
                  /\ Accepted(winner, name)
                  /\ AccountOf(name, calls[winner].user)
                  /\ \A t \in Callers \ {winner} :
                        /\ ~Accepted(t, name)
                        /\ calls[t].pc = "raised"
                        /\ calls[t].log[Len(calls[t].log)] = [call |-> name, ok |-> FALSE]

\* Both calls issued the directory create; the one whose create was accepted went
\* on to the end, the other ended at its create.
C29_Witness ==
    /\ \A t \in Callers : Issued(t, "ldap.create_user")
    /\ calls["c1"].pc = "raised"
    /\ calls["c2"].pc = "done"
    /\ calls["c1"].user # calls["c2"].user
    /\ FullyProvisioned("jdoe")

\* ------------------------------------------------------------------------
\* Properties of Part V (find_app_id is get_app_id_by_name)
\* ------------------------------------------------------------------------

\* The positions of the listing whose app is of the system asked for.
OfSystem == {i \in 1..Len(listing) : listing[i].system_id = lookup.system_id}
NamedExactly == {i \in OfSystem : listing[i].name = lookup.app_name}
NamedIgnoringCase == {i \in OfSystem : lower(listing[i].name) = lower(lookup.app_name)}

\* C31: find_app_id returns only the id of an app of the requested system; among
\* those an app named exactly app_name whenever there is one, even if an app named so
\* up to case is listed before it; otherwise the first app named so up to case; and
\* none when no app matches.
C31_FindAppId ==
    lookup # NoLookup =>
        /\ lookup.found # NoAppId => \E i \in OfSystem : lookup.found = ListedIds[i]
        /\ NamedExactly # {} => \E i \in NamedExactly : lookup.found = ListedIds[i]
        /\ NamedExactly = {} /\ NamedIgnoringCase # {} =>
               lookup.found = ListedIds[Min(NamedIgnoringCase)]
        /\ NamedIgnoringCase = {} => lookup.found = NoAppId

\* An exact match was returned although an app of the same system matching up to
\* case, and an app of another system matching exactly, are listed before it.
C31_Witness ==
    /\ lookup # NoLookup
    /\ \E i, j, k \in 1..Len(listing) :
          /\ i < k /\ j < k
          /\ i \in NamedIgnoringCase \ NamedExactly
          /\ j \notin OfSystem /\ listing[j].name = lookup.app_name
          /\ k \in NamedExactly
          /\ lookup.found = ListedIds[k]

\* ------------------------------------------------------------------------
\* Properties of Part VI
\* ------------------------------------------------------------------------

\* The request carries the Basic credentials the configuration names.
ValidCredentials(credentials) ==
    /\ credentials.given
    /\ authenticate_user(credentials.username, credentials.password)

\* The backing systems the endpoints of Part VI reach.
BackingSystems == <<ldapUsers, ldapGroups, irodsUsers, irodsHomes, members, analyses>>

\* C32: when authentication is enabled, no endpoint that reads or mutates a backing
\* system executes its operation for a request without valid Basic credentials: the
\* request is rejected with 401, no handler runs and every backing system is
\* unchanged.
C32_AuthRequired ==
    [][api_config.auth.enabled /\ ~ValidCredentials(served'.credentials)
          => /\ reply'.status_code = 401
             /\ last' = last
             /\ BackingSystems' = BackingSystems]_vars

\* ------------------------------------------------------------------------
\* Properties of Part VII
\* ------------------------------------------------------------------------

ServiceCreations ==
    {"irods.create_user", "irods.collections_create", "irods.collections_create service"}

\* The collection of the registration, as the claim lists it: there, inherit set,
\* "own" for the user and for irods_user when given.
Registered(request, users, services) ==
    LET d == services[<<request.username, request.irods_path>>]
    IN  /\ users[request.username].exists
        /\ d.exists
        /\ d.inherit
        /\ <<request.username, "own">> \in d.acl
        /\ request.irods_user # NoIrodsUser => <<request.irods_user, "own">> \in d.acl

\* C33: register_service called again with the same (username, irods_path,
\* irods_user), directly after a call that succeeded and with no backend failure,
\* succeeds, leaves the object store as the first call left it (account, home,
\* service collection, inherit flag, "own" of the user and of irods_user), and
\* creates no account and no collection.
C33_RegisterTwice ==
    [][(/\ last'.op = "register_service"
        /\ last'.after = "same_ok"
        /\ last'.fail = 0)
          => /\ last'.ok
             /\ <<irodsUsers, irodsHomes, irodsServices>>'
                    = <<irodsUsers, irodsHomes, irodsServices>>
             /\ Registered(last'.req, irodsUsers', irodsServices')
             /\ \A name \in ServiceCreations : ~InLog(name, last'.log)]_vars

\* A second registration with irods_user given has been served.
C33_Witness ==
    /\ last.op = "register_service"
    /\ last.after = "same_ok"
    /\ last.fail = 0
    /\ last.ok
    /\ last.req.irods_user # NoIrodsUser
    /\ Registered(last.req, irodsUsers, irodsServices)

\* ------------------------------------------------------------------------
\* Properties of Part VIII
\* ------------------------------------------------------------------------

\* The first value of the attribute, when there is one.
HasFirstValue == attr_value.kind \in {"str", "bytes"} \/ (attr_value.kind = "list" /\ attr_value.values # << >>)
FirstValue == IF attr_value.kind = "list" THEN attr_value.values[1] ELSE attr_value

\* The value is written as a base-10 integer literal: digits after an optional sign,
\* whitespace around them allowed.
IsIntLiteral(value) ==
    /\ \A i \in 1..Len(value.chars) : value.chars[i] \in Chars
    /\ int(value.chars).raised = "none"

\* C34: decode_ldap_int_attr never raises; it returns the integer the first value
\* (bytes or str) denotes when that value is a base-10 integer literal, zero and
\* negative numbers included, and None when the attribute is missing, None, an empty
\* list, or not an integer literal.
C34_DecodeIntAttr ==
    decoded # NotDecoded =>
        /\ decoded.raised = "none"
        /\ IF HasFirstValue /\ IsIntLiteral(FirstValue)
           THEN ~decoded.none /\ decoded.int = int(FirstValue.chars).int
           ELSE decoded.none

\* ------------------------------------------------------------------------
\* Properties of Part IX
\* ------------------------------------------------------------------------

\* Every caller has made a change_password call and all of them returned.
AllChanged == \A t \in Callers : calls[t].pc = "done"
\* The passwords of the calls made.
CallPasswords == {calls[t].user.password : t \in Callers}
\* The calls were for one username.
SameUsername == \A t, u \in Callers : calls[t].user.username = calls[u].user.username
ChangedUser == calls[CHOOSE t \in Callers : TRUE].user.username

\* C37: after change_password calls for the same username have all completed
\* successfully, possibly overlapping in time, the directory and the object store
\* hold the same password, the password of one of those calls.
C37_SamePasswordAfterOverlap ==
    AllChanged /\ SameUsername =>
        /\ ldapUsers[ChangedUser].userPassword = irodsUsers[ChangedUser].password
        /\ irodsUsers[ChangedUser].password \in CallPasswords

\* C37, amended: after such calls the directory holds the password of one of the
\* calls and the object store holds the password of one of the calls; the two are
\* the same password when no call began while another was running.
C37_EachFromSomeCall ==
    AllChanged /\ SameUsername =>
        /\ ldapUsers[ChangedUser].userPassword \in CallPasswords
        /\ irodsUsers[ChangedUser].password \in CallPasswords
        /\ (\A t \in Callers : calls[t].alone) =>
               ldapUsers[ChangedUser].userPassword = irodsUsers[ChangedUser].password

\* Two overlapping calls with different passwords have both returned, and the
\* directory and the object store differ.
C37_Witness ==
    /\ AllChanged
    /\ SameUsername
    /\ \E t \in Callers : ~calls[t].alone
    /\ Cardinality(CallPasswords) = 2
    /\ ldapUsers[ChangedUser].userPassword # irodsUsers[ChangedUser].password

\* ------------------------------------------------------------------------
\* Properties of Part X
\* ------------------------------------------------------------------------

\* The calls of the script that only read.
ReadCalls ==
    {"db.query", "db.connect", "irods.user_exists", "ldap.get_user", "ldap.get_user_groups"}
OnlyReads(log) == \A i \in 1..Len(log) : log[i] \in ReadCalls

\* C38: a run of the deletion script with --dry-run makes no mutating call: the
\* mailing lists, the object store, the directory and the portal database are after
\* the run what they were before it, whatever the state and wherever a call fails.
C38_DryRunChangesNothing ==
    [][script'.dry_run =>
          /\ OnlyReads(script'.log)
          /\ members' = members
          /\ irodsUsers' = irodsUsers /\ irodsHomes' = irodsHomes
          /\ ldapUsers' = ldapUsers /\ ldapGroups' = ldapGroups
          /\ portal_db' = portal_db]_vars

\* A dry run went through every phase for a user who is subscribed, provisioned and
\* has a portal record.
C38_Witness ==
    /\ script.ran /\ script.dry_run /\ script.email_api /\ script.success
    /\ script.log = <<"db.query", "irods.user_exists", "ldap.get_user",
                      "ldap.get_user_groups", "db.connect">>
    /\ portal_db[script.username].exists
    /\ \E l \in ListNames, e \in Emails :
          /\ <<l, e>> \in members
          /\ portal_db[script.username].emails = <<[email |-> e, mailing_lists |-> <<l>>]>>
    /\ irodsUsers[script.username].exists /\ irodsHomes[script.username].exists
    /\ ldapUsers[script.username].exists
    /\ \A g \in Groups : script.username \in ldapGroups[g]

\* The phase a call of the script belongs to.
Phase(name) ==
    CASE name = "db.query" -> 0
      [] name = "mailman.remove_member" -> 1
      [] name \in {"irods.user_exists", "irods.collections_exists",
                   "irods.collections_remove", "irods.delete_user"} -> 2
      [] name \in {"ldap.get_user", "ldap.get_user_groups",
                   "ldap.remove_user_from_group", "ldap.delete_user"} -> 3
      [] OTHER -> 4
InPhaseOrder(log) == \A i, j \in 1..Len(log) : i < j => Phase(log[i]) <= Phase(log[j])
\* The run ended with an exception raised by a call of a phase before the last.
FailedEarly(run) == run.err /\ Phase(run.log[Len(run.log)]) < 4

====
